---- MODULE Spec2Model ----
(***************************************************************************)
(* Model of the evaluation core of zdorward/mandate: feature extraction,   *)
(* deterministic scoring, risk discovery (mock, model call, JSON guard),   *)
(* confidence computation, escalation policy and the two pipelines that    *)
(* sequence them (weighted-mandate form and outcome-list form).            *)
(*                                                                         *)
(* Number representation.  The code computes in IEEE doubles; the model    *)
(* computes the same quantities exactly:                                   *)
(*   complexityScore   integer, in units of 1/10000                        *)
(*   confidence        integer, in units of 1/100                          *)
(*   tradeoffScore     rational [num, den], den > 0                        *)
(* Texts are strings; includes(), toLowerCase(), trim() and the regular    *)
(* expressions are computed character by character.                        *)
(***************************************************************************)
EXTENDS Integers, Sequences, FiniteSets, TLC

(***************************************************************************)
(* Bounds of the model.                                                    *)
(***************************************************************************)
MaxAssumptions == 1

MaxDependencies == 2

(***************************************************************************)
(* Characters and strings.                                                 *)
(***************************************************************************)
Min(a, b) == IF a <= b THEN a ELSE b

Max(a, b) == IF a >= b THEN a ELSE b

CharAt(s, i) == SubSeq(s, i, i)

LowerChar(c) ==
  CASE c = "A" -> "a" [] c = "B" -> "b" [] c = "C" -> "c" [] c = "D" -> "d"
    [] c = "E" -> "e" [] c = "F" -> "f" [] c = "G" -> "g" [] c = "H" -> "h"
    [] c = "I" -> "i" [] c = "J" -> "j" [] c = "K" -> "k" [] c = "L" -> "l"
    [] c = "M" -> "m" [] c = "N" -> "n" [] c = "O" -> "o" [] c = "P" -> "p"
    [] c = "Q" -> "q" [] c = "R" -> "r" [] c = "S" -> "s" [] c = "T" -> "t"
    [] c = "U" -> "u" [] c = "V" -> "v" [] c = "W" -> "w" [] c = "X" -> "x"
    [] c = "Y" -> "y" [] c = "Z" -> "z" [] OTHER -> c

\* characters lo..hi of s in lower case (split in halves to keep recursion shallow)
\* (the set binds each operand once, as a value)
RECURSIVE LowerRange(_, _, _)
LowerRange(s, lo, hi) ==
  CHOOSE r \in { IF l > h THEN ""
                 ELSE IF l = h THEN LowerChar(CharAt(t, l))
                 ELSE LowerRange(t, l, (l + h) \div 2) \o LowerRange(t, (l + h) \div 2 + 1, h) :
                 t \in { s }, l \in { lo }, h \in { hi } } : TRUE

ToLowerCase(s) == LowerRange(s, 1, Len(s))

\* String.prototype.includes
Includes(text, needle) ==
  \E t \in { text } :
    \E i \in 1..(Len(t) - Len(needle) + 1) :
        SubSeq(t, i, i + Len(needle) - 1) = needle

IsWhitespace(c) == c \in {" ", "\t", "\n", "\r"}

\* !s?.trim() : the string is empty once leading and trailing whitespace is removed
IsBlank(s) == \A i \in 1..Len(s) : IsWhitespace(CharAt(s, i))

IsDigit(c) == c \in {"0", "1", "2", "3", "4", "5", "6", "7", "8", "9"}

\* the character class [\d,]
IsDigitOrComma(c) == IsDigit(c) \/ c = ","

(***************************************************************************)
(* FeatureExtractor                                                        *)
(***************************************************************************)
BoolToInt(b) == IF b THEN 1 ELSE 0

\* complexityScore in units of 1/10000:
\*   (scopeLength / 500) * 0.4 + (deps / 5) * 0.3 + (assumptions / 5) * 0.3, at most 1
ComplexityOf(scopeLength, dependencyCount, assumptionCount) ==
  Min(10000, scopeLength * 8 + dependencyCount * 600 + assumptionCount * 600)

buildFeatures(proposal) ==
  LET assumptions == proposal.assumptions
      dependencies == proposal.dependencies
      missingFieldsCount ==
          BoolToInt(IsBlank(proposal.title))
        + BoolToInt(IsBlank(proposal.summary))
        + BoolToInt(IsBlank(proposal.scope))
        + BoolToInt(Len(assumptions) = 0)
        + BoolToInt(Len(dependencies) = 0)
      scopeLength == Len(proposal.scope)
  IN [ missingFieldsCount |-> missingFieldsCount,
       complexityScore |-> ComplexityOf(scopeLength, Len(dependencies), Len(assumptions)),
       dependencyCount |-> Len(dependencies),
       assumptionCount |-> Len(assumptions),
       scopeLength |-> scopeLength,
       hasAssumptions |-> Len(assumptions) > 0,
       hasDependencies |-> Len(dependencies) > 0 ]

(***************************************************************************)
(* DeterministicScorer                                                     *)
(***************************************************************************)
\* end of the maximal run of [\d,] characters that starts at position i
RECURSIVE RunEnd(_, _)
RunEnd(s, i) ==
  IF i < Len(s) /\ IsDigitOrComma(CharAt(s, i + 1)) THEN RunEnd(s, i + 1) ELSE i

\* text.match(/\$[\d,]+k?/i): the matched substring ("" when there is no match;
\* a match is never empty since it starts with "$")
MatchCurrency(text) ==
  LET starts == { i \in 1..(Len(text) - 1) :
                    CharAt(text, i) = "$" /\ IsDigitOrComma(CharAt(text, i + 1)) }
  IN IF starts = {} THEN ""
     ELSE LET i == CHOOSE j \in starts : \A k \in starts : j <= k
              e == RunEnd(text, i + 1)
              hasK == e < Len(text) /\ CharAt(text, e + 1) \in {"k", "K"}
          IN SubSeq(text, i, IF hasK THEN e + 1 ELSE e)

estimateImpact(proposal, features) ==
  LET summary == ToLowerCase(proposal.summary)
      scope == ToLowerCase(proposal.scope)
      text == summary \o " " \o scope
      growth ==
        IF Includes(text, "expand") \/ Includes(text, "growth") \/ Includes(text, "new market")
        THEN (IF features.complexityScore > 5000 THEN "High (+15-25%)" ELSE "Medium (+5-15%)")
        ELSE IF Includes(text, "optimize") \/ Includes(text, "improve")
             THEN "Low (+2-5%)"
             ELSE "Neutral"
      costMatch == MatchCurrency(text)
      cost ==
        IF costMatch # "" THEN costMatch
        ELSE IF features.complexityScore > 7000 THEN "High (>$500k est.)"
        ELSE IF features.complexityScore > 4000 THEN "Medium ($100-500k est.)"
        ELSE "Low (<$100k est.)"
      risk ==
        IF features.dependencyCount > 3 \/ features.complexityScore > 7000 THEN "High"
        ELSE IF features.dependencyCount <= 1 /\ features.complexityScore < 3000 THEN "Low"
        ELSE "Medium"
      brand ==
        IF Includes(text, "customer") \/ Includes(text, "user experience") \/ Includes(text, "brand")
        THEN "Positive"
        ELSE IF Includes(text, "cost cut") \/ Includes(text, "layoff") \/ Includes(text, "reduce")
             THEN "Risk of negative"
             ELSE "Neutral"
  IN [ growth |-> growth, cost |-> cost, risk |-> risk, brand |-> brand ]

\* A number computed in floating point is kept as its exact value num/den
\* (den > 0) together with err, the sign of (computed value - exact value):
\* the rounding error of IEEE arithmetic is far smaller than the distance
\* between two distinct exact values, so it decides a comparison only when the
\* exact values are equal.
Rat(n, d) == [ num |-> n, den |-> d, err |-> 0 ]

RatLT(a, b) ==
  \/ a.num * b.den < b.num * a.den
  \/ a.num * b.den = b.num * a.den /\ a.err < b.err

\* a variant that is strict: a > b
RatGreater(a, b) == RatLT(b, a)

RatGE(a, b) == ~RatLT(a, b)

\* Math.max(0, Math.min(1, x))
Clamp01Rat(x) ==
  IF RatLT(x, Rat(0, 1)) THEN Rat(0, 1)
  ELSE IF RatLT(Rat(1, 1), x) THEN Rat(1, 1) ELSE x

\* the band scores, in units of 1/10
BandScores(impact) ==
  [ growth |-> IF Includes(impact.growth, "High") THEN 9
               ELSE IF Includes(impact.growth, "Medium") THEN 6
               ELSE IF Includes(impact.growth, "Low") THEN 3 ELSE 5,
    cost |-> IF Includes(impact.cost, "Low") THEN 9
             ELSE IF Includes(impact.cost, "Medium") THEN 6
             ELSE IF Includes(impact.cost, "High") THEN 3 ELSE 5,
    risk |-> IF impact.risk = "Low" THEN 9
             ELSE IF impact.risk = "Medium" THEN 6 ELSE 3,
    brand |-> IF impact.brand = "Positive" THEN 9
              ELSE IF impact.brand = "Neutral" THEN 6 ELSE 3 ]

\* a variant that leaves out the penalty for missing fields
calculateTradeoffScoreUnpenalised(weights, impact, features, rounding) ==
  LET band == BandScores(impact)
      total == weights.growth + weights.cost + weights.risk + weights.brand
      weighted == weights.growth * band.growth + weights.cost * band.cost
                  + weights.risk * band.risk + weights.brand * band.brand
  IN IF total = 0 THEN Rat(1, 2)
     ELSE Clamp01Rat([ num |-> 2 * weighted, den |-> 20 * total, err |-> rounding ])

\* Weights are given in units of 1/20.  rounding is the sign of the rounding
\* error of the floating-point sum, division and subtraction.
calculateTradeoffScore(weights, impact, features, rounding) ==
  LET band == BandScores(impact)
      total == weights.growth + weights.cost + weights.risk + weights.brand
      weighted == weights.growth * band.growth + weights.cost * band.cost
                  + weights.risk * band.risk + weights.brand * band.brand
  IN IF total = 0 THEN Rat(1, 2)
     ELSE \* weighted / (10 * total) - missingFieldsCount / 20
          Clamp01Rat([ num |-> 2 * weighted - features.missingFieldsCount * total,
                       den |-> 20 * total,
                       err |-> rounding ])

\* the exact values at which the program's result depends on the rounding error:
\* the thresholds of the escalation policy and the ties of toFixed(0)
RoundingMatters(x) ==
  \/ \E t \in { 3, 5, 7 } : x.num * 10 = t * x.den
  \/ (200 * x.num) % (2 * x.den) = x.den

\* the rounding errors the model distinguishes for one score
TradeoffRoundings(weights, impact, features) ==
  LET exact == calculateTradeoffScore(weights, impact, features, 0)
      total == weights.growth + weights.cost + weights.risk + weights.brand
  IN IF total # 0 /\ RoundingMatters(exact) THEN { -1, 0, 1 } ELSE { 0 }

detectConflicts(proposal, features) ==
  LET text == ToLowerCase(proposal.summary \o " " \o proposal.scope)
      c1 == IF Includes(text, "reduce cost") /\ Includes(text, "expand")
            THEN << "Proposal aims to both reduce costs and expand - potential resource conflict" >>
            ELSE << >>
      c2 == IF Includes(text, "fast") /\ Includes(text, "thorough")
            THEN << "Speed and thoroughness goals may conflict" >>
            ELSE << >>
      c3 == IF features.dependencyCount > 3 /\ Includes(text, "quick")
            THEN << "Many dependencies may conflict with quick timeline" >>
            ELSE << >>
  IN c1 \o c2 \o c3

\* parseInt of a string of digits yields a number; of the empty string, NaN.
NaN == -1

RECURSIVE DigitsValue(_, _, _)
DigitsValue(s, i, acc) ==
  IF i > Len(s) THEN acc
  ELSE LET c == CharAt(s, i)
           d == CASE c = "0" -> 0 [] c = "1" -> 1 [] c = "2" -> 2 [] c = "3" -> 3
                  [] c = "4" -> 4 [] c = "5" -> 5 [] c = "6" -> 6 [] c = "7" -> 7
                  [] c = "8" -> 8 [] c = "9" -> 9
       IN DigitsValue(s, i + 1, acc * 10 + d)

RECURSIVE RemoveCommas(_, _)
RemoveCommas(s, i) ==
  IF i > Len(s) THEN ""
  ELSE (IF CharAt(s, i) = "," THEN "" ELSE CharAt(s, i)) \o RemoveCommas(s, i + 1)

\* parseInt(group.replace(/,/g, '')) for a group matched by [\d,]+
ParseAmount(group) ==
  LET digits == RemoveCommas(group, 1)
  IN IF digits = "" THEN NaN ELSE DigitsValue(digits, 1, 0)

\* a > b on numbers either of which may be NaN
NumGT(a, b) == a # NaN /\ b # NaN /\ a > b

\* starts of maximal runs of [\d,]
RunStarts(s) ==
  { i \in 1..Len(s) : IsDigitOrComma(CharAt(s, i))
                      /\ (i = 1 \/ ~IsDigitOrComma(CharAt(s, i - 1))) }

\* s.match(/\$?([\d,]+)k?/i): group 1, the first run of [\d,] ("" when no match)
MatchBudgetLimit(s) ==
  LET starts == RunStarts(s)
  IN IF starts = {} THEN ""
     ELSE LET i == CHOOSE j \in starts : \A k \in starts : j <= k
          IN SubSeq(s, i, RunEnd(s, i))

\* s.match(/\$?([\d,]+)k/i): group 1, the first run of [\d,] directly followed
\* by "k" ("" when no match)
MatchProposalCost(s) ==
  LET starts == { i \in RunStarts(s) :
                    LET e == RunEnd(s, i)
                    IN e < Len(s) /\ CharAt(s, e + 1) \in {"k", "K"} }
  IN IF starts = {} THEN ""
     ELSE LET i == CHOOSE j \in starts : \A k \in starts : j <= k
          IN SubSeq(s, i, RunEnd(s, i))

\* the findings one constraint contributes, in the order the code pushes them
ConstraintFindings(constraint, text) ==
  LET constraintLower == ToLowerCase(constraint)
      budgetMatch == MatchBudgetLimit(constraintLower)
      proposalCostMatch == MatchProposalCost(text)
      budget ==
        IF (Includes(constraintLower, "budget") \/ Includes(constraintLower, "$"))
           /\ budgetMatch # "" /\ proposalCostMatch # ""
           /\ NumGT(ParseAmount(proposalCostMatch), ParseAmount(budgetMatch))
        THEN << "Budget constraint violated: " \o constraint >>
        ELSE << >>
      layoff ==
        IF Includes(constraintLower, "no layoff") /\ Includes(text, "layoff")
        THEN << "Constraint violated: " \o constraint >>
        ELSE << >>
      privacy ==
        IF Includes(constraintLower, "data privacy")
           /\ (Includes(text, "share data") \/ Includes(text, "third party"))
        THEN << "Potential data privacy constraint violation: " \o constraint >>
        ELSE << >>
  IN budget \o layoff \o privacy

RECURSIVE ConstraintsFrom(_, _, _)
ConstraintsFrom(nonNegotiables, i, text) ==
  IF i > Len(nonNegotiables) THEN << >>
  ELSE ConstraintFindings(nonNegotiables[i], text)
       \o ConstraintsFrom(nonNegotiables, i + 1, text)

\* a variant that compares the text as written
checkConstraintsCaseSensitive(nonNegotiables, proposal) ==
  ConstraintsFrom(nonNegotiables, 1,
                  proposal.title \o " " \o proposal.summary \o " " \o proposal.scope)

checkConstraints(nonNegotiables, proposal) ==
  LET text == ToLowerCase(proposal.title \o " " \o proposal.summary \o " " \o proposal.scope)
  IN ConstraintsFrom(nonNegotiables, 1, text)

scoreProposal(mandate, proposal, features, rounding) ==
  LET impactEstimate == estimateImpact(proposal, features)
  IN [ impactEstimate |-> impactEstimate,
       tradeoffScore |-> calculateTradeoffScore(mandate.weights, impactEstimate, features,
                                                rounding),
       conflicts |-> detectConflicts(proposal, features),
       constraintViolations |-> checkConstraints(mandate.nonNegotiables, proposal) ]

(***************************************************************************)
(* RiskDiscoveryAdapter: mock generator                                    *)
(***************************************************************************)
getExpansionRisks ==
  [
    implicit_assumptions |-> <<
        [ risk |-> "Assumes local market dynamics mirror domestic patterns",
          severity |-> "high",
          evidence_needed |-> "Market research from target region" ],
        [ risk |-> "Assumes existing supply chain can scale to new regions",
          severity |-> "med",
          evidence_needed |-> "Logistics feasibility study" ] >>,
    second_order_effects |-> <<
        [ risk |-> "May trigger competitive response from regional incumbents",
          severity |-> "high",
          evidence_needed |-> "Competitive landscape analysis" ],
        [ risk |-> "Could strain existing customer support capacity",
          severity |-> "med",
          evidence_needed |-> "Support ticket volume projections" ] >>,
    tail_risks |-> <<
        [ risk |-> "Regulatory changes in target region could block market entry",
          severity |-> "high",
          evidence_needed |-> "Regulatory risk assessment" ],
        [ risk |-> "Currency fluctuations could erode margins by 20%+",
          severity |-> "med",
          evidence_needed |-> "FX sensitivity analysis" ] >>,
    metric_gaming_vectors |-> <<
        [ risk |-> "Teams may count soft launches as expansion wins",
          severity |-> "low",
          evidence_needed |-> "Clear success metric definitions" ] >>,
    cross_functional_impacts |-> <<
        [ risk |-> "Legal team capacity for international contracts",
          severity |-> "med",
          evidence_needed |-> "Legal team capacity assessment" ],
        [ risk |-> "HR may lack international hiring expertise",
          severity |-> "med",
          evidence_needed |-> "HR international readiness check" ] >>,
    top_3_unseen_risks |-> <<
        "Regional competitors may respond with aggressive pricing war",
        "Supply chain partners may lack required regional certifications",
        "Cultural differences could affect product-market fit" >>,
    data_to_collect_next |-> <<
        "Validate partner certifications in target region",
        "Get treasury sign-off on FX exposure limits",
        "Survey existing customers about regional expansion interest" >> ]

getCostCuttingRisks ==
  [
    implicit_assumptions |-> <<
        [ risk |-> "Assumes cost cuts won't impact service quality",
          severity |-> "high",
          evidence_needed |-> "Quality baseline metrics" ],
        [ risk |-> "Assumes affected teams will maintain productivity",
          severity |-> "med",
          evidence_needed |-> "Change management assessment" ] >>,
    second_order_effects |-> <<
        [ risk |-> "Key talent may leave proactively",
          severity |-> "high",
          evidence_needed |-> "Retention risk assessment" ],
        [ risk |-> "Vendor relationships may deteriorate",
          severity |-> "med",
          evidence_needed |-> "Vendor dependency mapping" ] >>,
    tail_risks |-> <<
        [ risk |-> "Morale collapse could cascade across organization",
          severity |-> "high",
          evidence_needed |-> "Employee sentiment data" ],
        [ risk |-> "Critical institutional knowledge may be lost",
          severity |-> "med",
          evidence_needed |-> "Knowledge transfer audit" ] >>,
    metric_gaming_vectors |-> <<
        [ risk |-> "Short-term savings may hide long-term capability loss",
          severity |-> "high",
          evidence_needed |-> "Capability impact assessment" ] >>,
    cross_functional_impacts |-> <<
        [ risk |-> "PR/communications burden during restructuring",
          severity |-> "med",
          evidence_needed |-> "Communications plan" ],
        [ risk |-> "Legal review needed for any workforce changes",
          severity |-> "med",
          evidence_needed |-> "Legal compliance checklist" ] >>,
    top_3_unseen_risks |-> <<
        "Competitors may poach talent during transition",
        "Customer perception of instability could affect renewals",
        "Hidden dependencies on roles being eliminated" >>,
    data_to_collect_next |-> <<
        "Map critical dependencies for each affected role",
        "Assess competitor hiring activity",
        "Survey customer sentiment baseline" >> ]

getTechRisks ==
  [
    implicit_assumptions |-> <<
        [ risk |-> "Assumes current team has required technical skills",
          severity |-> "med",
          evidence_needed |-> "Skills gap analysis" ],
        [ risk |-> "Assumes integration with existing systems is straightforward",
          severity |-> "high",
          evidence_needed |-> "Technical architecture review" ] >>,
    second_order_effects |-> <<
        [ risk |-> "New tech may require retraining across organization",
          severity |-> "med",
          evidence_needed |-> "Training needs assessment" ],
        [ risk |-> "Legacy system deprecation timeline may be unrealistic",
          severity |-> "med",
          evidence_needed |-> "Migration complexity analysis" ] >>,
    tail_risks |-> <<
        [ risk |-> "Vendor lock-in could limit future flexibility",
          severity |-> "med",
          evidence_needed |-> "Vendor exit strategy" ],
        [ risk |-> "Security vulnerabilities in new stack unknown",
          severity |-> "high",
          evidence_needed |-> "Security audit plan" ] >>,
    metric_gaming_vectors |-> <<
        [ risk |-> "Performance benchmarks may not reflect production load",
          severity |-> "med",
          evidence_needed |-> "Realistic load testing plan" ] >>,
    cross_functional_impacts |-> <<
        [ risk |-> "Operations team needs new monitoring capabilities",
          severity |-> "med",
          evidence_needed |-> "Ops readiness checklist" ],
        [ risk |-> "Compliance requirements for new data flows",
          severity |-> "med",
          evidence_needed |-> "Compliance review" ] >>,
    top_3_unseen_risks |-> <<
        "Integration complexity often 3x initial estimates",
        "Key technical staff may resist change",
        "Hidden data migration costs" >>,
    data_to_collect_next |-> <<
        "Conduct proof-of-concept with production-like data",
        "Map all integration points with existing systems",
        "Assess team technical readiness" >> ]

getGenericRisks ==
  [
    implicit_assumptions |-> <<
        [ risk |-> "Timeline assumes no competing priorities emerge",
          severity |-> "med",
          evidence_needed |-> "Resource allocation confirmation" ],
        [ risk |-> "Budget estimates may not include hidden costs",
          severity |-> "med",
          evidence_needed |-> "Detailed cost breakdown" ] >>,
    second_order_effects |-> <<
        [ risk |-> "Success may create expectations for similar initiatives",
          severity |-> "low",
          evidence_needed |-> "Capacity planning" ],
        [ risk |-> "Failure could affect team credibility for future proposals",
          severity |-> "med",
          evidence_needed |-> "Risk mitigation plan" ] >>,
    tail_risks |-> <<
        [ risk |-> "External market conditions could invalidate assumptions",
          severity |-> "med",
          evidence_needed |-> "Market monitoring plan" ] >>,
    metric_gaming_vectors |-> <<
        [ risk |-> "Success metrics may be cherry-picked post-hoc",
          severity |-> "low",
          evidence_needed |-> "Pre-registered success criteria" ] >>,
    cross_functional_impacts |-> <<
        [ risk |-> "Other teams may have unstated dependencies",
          severity |-> "med",
          evidence_needed |-> "Cross-team dependency mapping" ] >>,
    top_3_unseen_risks |-> <<
        "Stakeholder alignment may be shallower than assumed",
        "Resource availability may shift mid-project",
        "Scope creep risk not explicitly managed" >>,
    data_to_collect_next |-> <<
        "Confirm stakeholder commitment in writing",
        "Validate resource availability with managers",
        "Define explicit scope boundaries" >> ]

\* a variant that tests the cost-cutting keywords first
getMockRisksCostFirst(proposalTitle, proposalSummary) ==
  LET text == ToLowerCase(proposalTitle \o " " \o proposalSummary)
  IN IF Includes(text, "cost") \/ Includes(text, "cut")
        \/ Includes(text, "reduce") \/ Includes(text, "efficiency")
     THEN getCostCuttingRisks
     ELSE IF Includes(text, "expansion") \/ Includes(text, "market")
             \/ Includes(text, "apac") \/ Includes(text, "region")
     THEN getExpansionRisks
     ELSE IF Includes(text, "tech") \/ Includes(text, "infrastructure")
             \/ Includes(text, "platform")
     THEN getTechRisks
     ELSE getGenericRisks

getMockRisks(proposalTitle, proposalSummary) ==
  LET text == ToLowerCase(proposalTitle \o " " \o proposalSummary)
  IN IF Includes(text, "expansion") \/ Includes(text, "market")
        \/ Includes(text, "apac") \/ Includes(text, "region")
     THEN getExpansionRisks
     ELSE IF Includes(text, "cost") \/ Includes(text, "cut")
             \/ Includes(text, "reduce") \/ Includes(text, "efficiency")
     THEN getCostCuttingRisks
     ELSE IF Includes(text, "tech") \/ Includes(text, "infrastructure")
             \/ Includes(text, "platform")
     THEN getTechRisks
     ELSE getGenericRisks

\* latencyMs is wall-clock time and is left out of every trace of the model
getMockTrace ==
  [ provider |-> "mock", model |-> "demo-mode", promptVersionId |-> "mock-v1",
    failures |-> << >> ]

(***************************************************************************)
(* RiskDiscoveryAdapter: schema                                            *)
(*                                                                         *)
(* A JSON value is [kind, members]: kind "object" with members a sequence  *)
(* of [key, value] in text order (a repeated key: the last one wins, as    *)
(* JSON.parse does), or another kind with no members.  An array is a       *)
(* sequence; a risk item is a record of its three texts.                   *)
(***************************************************************************)
MaxTextLength == 200

MaxCategoryItems == 5

MaxTopRisks == 3

MaxDataToCollect == 5

Severities == { "low", "med", "high" }

RiskCategories ==
  << "implicit_assumptions", "second_order_effects", "tail_risks",
     "metric_gaming_vectors", "cross_functional_impacts" >>

\* value of a key, or the schema's default([]) when the key is absent
Lookup(members, key) ==
  LET idx == { i \in 1..Len(members) : members[i].key = key }
  IN IF idx = {} THEN << >>
     ELSE members[CHOOSE i \in idx : \A j \in idx : j <= i].value

\* RiskItemSchema
RiskItemValid(item) ==
  /\ Len(item.risk) <= MaxTextLength
  /\ item.severity \in Severities
  /\ Len(item.evidence_needed) <= MaxTextLength

RiskListValid(list) ==
  /\ Len(list) <= MaxCategoryItems
  /\ \A i \in 1..Len(list) : RiskItemValid(list[i])

TextListValid(list, maxItems) ==
  /\ Len(list) <= maxItems
  /\ \A i \in 1..Len(list) : Len(list[i]) <= MaxTextLength

\* a variant that checks only that the value is an object
SchemaAcceptsAnyObject(parsed) == parsed.kind = "object"

\* RiskDiscoverySchema.safeParse(parsed).success
SchemaAccepts(parsed) ==
  /\ parsed.kind = "object"
  /\ \A c \in 1..Len(RiskCategories) : RiskListValid(Lookup(parsed.members, RiskCategories[c]))
  /\ TextListValid(Lookup(parsed.members, "top_3_unseen_risks"), MaxTopRisks)
  /\ TextListValid(Lookup(parsed.members, "data_to_collect_next"), MaxDataToCollect)

\* RiskDiscoverySchema.safeParse(parsed).data: the seven lists, unknown keys stripped
SchemaData(parsed) ==
  [ implicit_assumptions |-> Lookup(parsed.members, "implicit_assumptions"),
    second_order_effects |-> Lookup(parsed.members, "second_order_effects"),
    tail_risks |-> Lookup(parsed.members, "tail_risks"),
    metric_gaming_vectors |-> Lookup(parsed.members, "metric_gaming_vectors"),
    cross_functional_impacts |-> Lookup(parsed.members, "cross_functional_impacts"),
    top_3_unseen_risks |-> Lookup(parsed.members, "top_3_unseen_risks"),
    data_to_collect_next |-> Lookup(parsed.members, "data_to_collect_next") ]

(***************************************************************************)
(* RiskDiscoveryAdapter: JSON guard                                        *)
(*                                                                         *)
(* A raw completion text is a sequence of tokens:                          *)
(*   [tok |-> "json", value |-> v]   the JSON serialisation of v           *)
(*   [tok |-> "fence"]               a ``` code fence                      *)
(*   [tok |-> "prose"]               text without braces or fences         *)
(*   [tok |-> "broken"]              "{ ... }" text that is not JSON       *)
(* The empty sequence is the empty string.                                 *)
(***************************************************************************)
Threw(message) == [ ok |-> FALSE, error |-> message ]

Returned(value) == [ ok |-> TRUE, value |-> value ]

\* JSON.parse: the text must be exactly one JSON value
JsonParse(tokens) ==
  IF Len(tokens) = 1 /\ tokens[1].tok = "json"
  THEN Returned(tokens[1].value)
  ELSE Threw("SyntaxError")

FencePositions(raw) == { i \in 1..Len(raw) : raw[i].tok = "fence" }

\* raw.match(/```(?:json)?\s*([\s\S]*?)```/): there are two fences
HasCodeBlock(raw) == Cardinality(FencePositions(raw)) >= 2

\* group 1: what stands between the first fence and the next one
CodeBlockContent(raw) ==
  LET f == FencePositions(raw)
      first == CHOOSE i \in f : \A j \in f : i <= j
      rest == f \ { first }
      second == CHOOSE i \in rest : \A j \in rest : i <= j
  IN SubSeq(raw, first + 1, second - 1)

HasBraces(token) ==
  \/ token.tok = "broken"
  \/ token.tok = "json" /\ token.value.kind = "object"

BracePositions(raw) == { i \in 1..Len(raw) : HasBraces(raw[i]) }

\* raw.match(/\{[\s\S]*\}/): from the first "{" to the last "}"
BraceSpan(raw) ==
  LET b == BracePositions(raw)
      first == CHOOSE i \in b : \A j \in b : i <= j
      last == CHOOSE i \in b : \A j \in b : j <= i
  IN SubSeq(raw, first, last)

\* the value the three extraction strategies hand to the schema, or the throw
ExtractJson(raw) ==
  LET direct == JsonParse(raw)
  IN IF direct.ok THEN direct
     ELSE IF HasCodeBlock(raw)
          THEN LET block == JsonParse(CodeBlockContent(raw))
               IN IF block.ok THEN block
                  ELSE Threw("Error: Failed to parse JSON from code block")
          ELSE IF BracePositions(raw) # {}
               THEN LET span == JsonParse(BraceSpan(raw))
                    IN IF span.ok THEN span
                       ELSE Threw("Error: Failed to parse extracted JSON")
               ELSE Threw("Error: No JSON found in response")

\* the zod issue list that follows "Schema validation failed: " is not modelled
extractAndValidateJson(raw) ==
  LET extracted == ExtractJson(raw)
  IN IF ~extracted.ok THEN extracted
     ELSE IF SchemaAccepts(extracted.value)
          THEN Returned(SchemaData(extracted.value))
          ELSE Threw("Error: Schema validation failed")

(***************************************************************************)
(* RiskDiscoveryAdapter: the two discoverRisks (after the awaited call)    *)
(*                                                                         *)
(* The outcome of the awaited client call is                               *)
(*   [threw |-> TRUE, error |-> message]            the call rejected      *)
(*   [threw |-> FALSE, present |-> b, raw |-> tokens]  a completion whose  *)
(*        choices[0]?.message?.content is missing (present = FALSE) or is  *)
(*        the text raw                                                     *)
(***************************************************************************)
isDemo(key) == key = "" \/ key = "demo"

emptyRisks ==
  [ implicit_assumptions |-> << >>,
    second_order_effects |-> << >>,
    tail_risks |-> << >>,
    metric_gaming_vectors |-> << >>,
    cross_functional_impacts |-> << >>,
    top_3_unseen_risks |-> << >>,
    data_to_collect_next |-> << >> ]

EmptyObject == [ kind |-> "object", members |-> << >> ]

\* The try block of discoverRisks (weighted form) once the awaited client call
\* has settled: the completion's content, or '{}' when it is missing or empty,
\* goes through the JSON guard.
discoverRisksTry(outcome) ==
  IF outcome.threw THEN Threw(outcome.error)
  ELSE extractAndValidateJson(
         IF outcome.present /\ outcome.raw # << >>
         THEN outcome.raw
         ELSE << [ tok |-> "json", value |-> EmptyObject ] >>)

\* a variant without the catch block: an error of the try block rejects
discoverRisksUncaught(outcome) ==
  LET tried == discoverRisksTry(outcome)
  IN IF tried.ok
     THEN Returned([ risks |-> tried.value,
                     trace |-> [ provider |-> "openai", model |-> "gpt-4o",
                                 promptVersionId |-> "riskDiscovery-v1",
                                 failures |-> << >> ] ])
     ELSE tried

\* What the promise of discoverRisks (weighted form) settles with: the catch
\* block turns every error of the try block into a result.
discoverRisksAfterCall(outcome) ==
  LET tried == discoverRisksTry(outcome)
  IN IF tried.ok
     THEN Returned([ risks |-> tried.value,
                     trace |-> [ provider |-> "openai", model |-> "gpt-4o",
                                 promptVersionId |-> "riskDiscovery-v1",
                                 failures |-> << >> ] ])
     ELSE Returned([ risks |-> emptyRisks,
                     trace |-> [ provider |-> "openai", model |-> "gpt-4o",
                                 promptVersionId |-> "riskDiscovery-v1",
                                 failures |-> << [ stage |-> "riskDiscovery",
                                                   error |-> tried.error ] >> ] ])

\* outcome-list form: the content, or '' when it is missing
discoverRisksOutcomesTry(outcome) ==
  IF outcome.threw THEN Threw(outcome.error)
  ELSE extractAndValidateJson(IF outcome.present THEN outcome.raw ELSE << >>)

\* outcome-list form: the catch block records the failure and answers with the mock
discoverRisksOutcomesAfterCall(input, outcome) ==
  LET tried == discoverRisksOutcomesTry(outcome)
  IN IF tried.ok
     THEN Returned([ risks |-> tried.value,
                     trace |-> [ provider |-> "openai", model |-> "gpt-4o",
                                 failures |-> << >> ] ])
     ELSE Returned([ risks |-> getMockRisks(input.proposalTitle, input.proposalSummary),
                     trace |-> [ provider |-> "openai", model |-> "gpt-4o",
                                 failures |-> << [ stage |-> "llm",
                                                   error |-> tried.error ] >> ] ])

(***************************************************************************)
(* ConfidenceComputation (confidence in units of 1/100)                    *)
(***************************************************************************)
TotalRisks(risks) ==
  Len(risks.implicit_assumptions) + Len(risks.second_order_effects)
  + Len(risks.tail_risks) + Len(risks.metric_gaming_vectors)
  + Len(risks.cross_functional_impacts)

\* a variant that only caps the value at 1
capConfidence(confidence) == Min(100, confidence)

\* a variant with the floor of the outcome-list form
clampConfidenceAtTenth(confidence) == Max(10, Min(100, confidence))

\* Math.max(0, Math.min(1, confidence))
clampConfidence(confidence) == Max(0, Min(100, confidence))

\* a variant that applies no adjustment
computeConfidenceUnadjusted(features, scores, risks, trace) ==
  [ confidence |-> clampConfidence(80),
    reasons |-> << "Standard confidence assessment" >> ]

computeConfidence(features, scores, risks, trace) ==
  LET missing == features.missingFieldsCount > 0
      failed == Len(trace.failures) > 0
      noAssumptions == ~features.hasAssumptions
      noDependencies == ~features.hasDependencies
      totalRisks == TotalRisks(risks)
      manyRisks == totalRisks > 10
      conflicts == Len(scores.conflicts)
      boost == features.hasAssumptions /\ features.hasDependencies
               /\ features.missingFieldsCount = 0
      confidence ==
          80
        - (IF missing THEN features.missingFieldsCount * 10 ELSE 0)
        - (IF failed THEN 30 ELSE 0)
        - (IF noAssumptions THEN 10 ELSE 0)
        - (IF noDependencies THEN 5 ELSE 0)
        - (IF manyRisks THEN 10 ELSE 0)
        - (IF conflicts > 0 THEN conflicts * 5 ELSE 0)
        + (IF boost THEN 10 ELSE 0)
      reasons ==
          (IF missing
           THEN << "Missing " \o ToString(features.missingFieldsCount)
                   \o " proposal field(s) (-"
                   \o ToString(features.missingFieldsCount * 10) \o "%)" >>
           ELSE << >>)
        \o (IF failed THEN << "AI risk analysis failed (-30%)" >> ELSE << >>)
        \o (IF noAssumptions THEN << "No assumptions stated (-10%)" >> ELSE << >>)
        \o (IF noDependencies THEN << "No dependencies stated (-5%)" >> ELSE << >>)
        \o (IF manyRisks
            THEN << "High risk count (" \o ToString(totalRisks) \o ") (-10%)" >>
            ELSE << >>)
        \o (IF conflicts > 0
            THEN << ToString(conflicts) \o " conflict(s) detected (-"
                    \o ToString(conflicts * 5) \o "%)" >>
            ELSE << >>)
        \o (IF boost THEN << "Well-documented proposal (+10%)" >> ELSE << >>)
  IN [ confidence |-> clampConfidence(confidence),
       reasons |-> IF reasons = << >> THEN << "Standard confidence assessment" >>
                   ELSE reasons ]

\* outcome-list form
computeSimpleConfidence(features, trace) ==
  LET missing == features.missingFieldsCount > 0
      noAssumptions == features.assumptionCount = 0
      failed == Len(trace.failures) > 0
      confidence ==
          80
        - (IF missing THEN features.missingFieldsCount * 10 ELSE 0)
        - (IF noAssumptions THEN 10 ELSE 0)
        - (IF failed THEN 20 ELSE 0)
      reasons ==
          (IF missing
           THEN << "Missing " \o ToString(features.missingFieldsCount)
                   \o " proposal field(s)" >>
           ELSE << >>)
        \o (IF noAssumptions THEN << "No assumptions stated" >> ELSE << >>)
        \o (IF failed THEN << "AI analysis had failures" >> ELSE << >>)
  IN [ confidence |-> Max(10, confidence),
       reasons |-> IF reasons = << >> THEN << "Proposal well-formed" >> ELSE reasons ]

(***************************************************************************)
(* EscalationPolicy                                                        *)
(***************************************************************************)
HighCount(list) == Cardinality({ i \in 1..Len(list) : list[i].severity = "high" })

HasHigh(list) == \E i \in 1..Len(list) : list[i].severity = "high"

\* a variant that needs two violations
hasSeveralConstraintViolations(scores) == Len(scores.constraintViolations) > 1

\* scores.constraintViolations.length > 0
hasConstraintViolations(scores) == Len(scores.constraintViolations) > 0

\* a variant with the threshold at 0.3
confidenceBelowThreeTenths(confidence) == confidence < 30

\* confidence < 0.4
confidenceTooLow(confidence) == confidence < 40

\* a variant that ignores the tail risks
hasCriticalTailRiskNever(risks) == FALSE

hasCriticalTailRisk(risks) == HasHigh(risks.tail_risks)

highSeverityCount(risks) ==
    HighCount(risks.implicit_assumptions) + HighCount(risks.second_order_effects)
  + HighCount(risks.tail_risks) + HighCount(risks.metric_gaming_vectors)
  + HighCount(risks.cross_functional_impacts)

applyEscalation(riskTolerance, scores, risks, confidence) ==
  IF hasConstraintViolations(scores)
  THEN [ recommendation |-> "ESCALATE", humanRequired |-> TRUE,
         reasons |-> << "Non-negotiable constraints violated" >> ]
  ELSE IF confidenceTooLow(confidence)
  THEN [ recommendation |-> "ESCALATE", humanRequired |-> TRUE,
         reasons |-> << "Confidence too low (" \o ToString(confidence) \o "%)" >> ]
  ELSE IF hasCriticalTailRisk(risks)
  THEN [ recommendation |-> "ESCALATE", humanRequired |-> TRUE,
         reasons |-> << "High-severity tail risk identified" >> ]
  ELSE IF highSeverityCount(risks) >= 3
  THEN [ recommendation |-> "ESCALATE", humanRequired |-> TRUE,
         reasons |-> << "Multiple high-severity risks ("
                        \o ToString(highSeverityCount(risks)) \o ")" >> ]
  ELSE IF RatGE(scores.tradeoffScore, Rat(7, 10))
  THEN (IF riskTolerance = "CONSERVATIVE"
        THEN [ recommendation |-> "APPROVE", humanRequired |-> TRUE,
               reasons |-> << "Strong alignment but conservative risk tolerance requires review" >> ]
        ELSE [ recommendation |-> "APPROVE", humanRequired |-> FALSE,
               reasons |-> << "Strong alignment with mandate" >> ])
  ELSE IF RatGE(scores.tradeoffScore, Rat(5, 10))
  THEN [ recommendation |-> "APPROVE", humanRequired |-> TRUE,
         reasons |-> << "Moderate alignment - human review recommended" >> ]
  ELSE IF RatGE(scores.tradeoffScore, Rat(3, 10))
  THEN [ recommendation |-> "REVISE", humanRequired |-> FALSE,
         reasons |-> << "Weak alignment with mandate - revision recommended" >> ]
  ELSE [ recommendation |-> "REVISE", humanRequired |-> TRUE,
         reasons |-> << "Poor alignment with mandate" >> ]

\* outcome-list form
determineRecommendation(risks, confidence) ==
  LET hasHighSeverityRisk ==
        HasHigh(risks.tail_risks) \/ HasHigh(risks.implicit_assumptions)
        \/ HasHigh(risks.second_order_effects)
  IN IF confidence < 40
     THEN [ recommendation |-> "ESCALATE", humanRequired |-> TRUE ]
     ELSE IF hasHighSeverityRisk
     THEN [ recommendation |-> "ESCALATE", humanRequired |-> TRUE ]
     ELSE IF confidence >= 70
     THEN [ recommendation |-> "APPROVE", humanRequired |-> FALSE ]
     ELSE [ recommendation |-> "REVISE", humanRequired |-> TRUE ]

(***************************************************************************)
(* PipelineOrchestrator: summaries                                         *)
(***************************************************************************)
MaxSummaryLength == 240

\* a variant that does not cut the text
SliceNothing(s, n) == s

\* s.slice(0, n)
Slice(s, n) == SubSeq(s, 1, Min(n, Len(s)))

ActionVerb(recommendation) ==
  IF recommendation = "APPROVE" THEN "Proceed with"
  ELSE IF recommendation = "REVISE" THEN "Revise" ELSE "Escalate"

\* (x * 100).toFixed(0) for x >= 0: the nearest integer; an exact tie goes up
\* unless the computed value lies below it
PercentOf(x) ==
  IF (200 * x.num) % (2 * x.den) = x.den /\ x.err < 0
  THEN (200 * x.num - x.den) \div (2 * x.den)
  ELSE (200 * x.num + x.den) \div (2 * x.den)

generateSummary(proposal, scores, recommendation) ==
  Slice(ActionVerb(recommendation) \o ": " \o proposal.title \o ". "
        \o (IF Len(scores.constraintViolations) > 0
            THEN ToString(Len(scores.constraintViolations)) \o " constraint violation(s). "
            ELSE "")
        \o (IF Len(scores.conflicts) > 0
            THEN ToString(Len(scores.conflicts)) \o " conflict(s) detected. "
            ELSE "")
        \o "Tradeoff score: " \o ToString(PercentOf(scores.tradeoffScore)) \o "%.",
        MaxSummaryLength)

\* outcome-list form
generateSummaryOutcomes(title, recommendation, risks) ==
  Slice(ActionVerb(recommendation) \o ": " \o title \o ". "
        \o ToString(Len(risks.top_3_unseen_risks)) \o " key risks identified.",
        MaxSummaryLength)

(***************************************************************************)
(* Inputs: mandates, proposals, and what the model client may answer       *)
(***************************************************************************)
\* n entries of a list field whose content the core never reads
ListOfN(entry, n) == [ i \in 1..n |-> entry ]

\* weights in units of 1/20
SeedWeightsV1 == [ growth |-> 8, cost |-> 4, risk |-> 6, brand |-> 2 ]

ZeroWeights == [ growth |-> 0, cost |-> 0, risk |-> 0, brand |-> 0 ]

SeedWeightsV2 == [ growth |-> 10, cost |-> 3, risk |-> 5, brand |-> 2 ]

WeightSets == { SeedWeightsV1, ZeroWeights }

RiskTolerances == { "CONSERVATIVE", "MODERATE", "AGGRESSIVE" }

SeedNonNegotiablesV1 == << "No layoffs", "Budget must not exceed $500k" >>

SeedNonNegotiablesV2 ==
  << "No layoffs", "Budget must not exceed $750k", "Data privacy must be maintained" >>

NonNegotiableSets == { << >>, SeedNonNegotiablesV2 }

\* the two seeded mandate versions (version 2 is the active one)
SeedMandateV1 ==
  [ weights |-> SeedWeightsV1, riskTolerance |-> "MODERATE",
    nonNegotiables |-> SeedNonNegotiablesV1 ]

SeedMandateV2 ==
  [ weights |-> SeedWeightsV2, riskTolerance |-> "MODERATE",
    nonNegotiables |-> SeedNonNegotiablesV2 ]

WeightedMandates ==
  { [ weights |-> w, riskTolerance |-> t, nonNegotiables |-> n ] :
      w \in WeightSets, t \in RiskTolerances, n \in NonNegotiableSets }
  \cup { SeedMandateV1, SeedMandateV2 }

SeedOutcomes ==
  << "Reduce ATO fraud losses from $120K/month to under $50K/month",
     "Block 95%+ of credential stuffing attempts at login" >>

OutcomeMandates == { [ outcomes |-> SeedOutcomes ] }

SeedApac ==
  [ title |-> "APAC Market Expansion",
    summary |-> "Expand operations to Singapore and Japan markets with phased rollout over 6 months. Initial focus on enterprise customers.",
    assumptions |-> << "Local partners available for distribution",
                       "Product localization can be completed in 3 months",
                       "Regulatory approval timeline is 2 months" >>,
    scope |-> "Phase 1: Singapore (Month 1-3), Phase 2: Japan (Month 4-6). Includes local hiring, partner agreements, and marketing launch.",
    dependencies |-> << "Legal team for contracts", "Product team for localization",
                        "Finance for FX management" >> ]

SeedEfficiency ==
  [ title |-> "Operational Efficiency Initiative",
    summary |-> "Reduce operational costs by 20% through process automation and workforce optimization including targeted layoffs.",
    assumptions |-> << "Automation tools can replace 30% of manual processes",
                       "Affected employees can be retrained or transitioned" >>,
    scope |-> "Q1: Process audit, Q2: Automation implementation, Q3: Workforce restructuring with layoffs in underperforming units.",
    dependencies |-> << "HR for workforce planning", "IT for automation tools",
                        "Legal for compliance" >> ]

SeedInnovationLab ==
  [ title |-> "Innovation Lab Setup",
    summary |-> "Create an innovation lab to explore emerging technologies.",
    assumptions |-> << >>,
    scope |-> "TBD",
    dependencies |-> << >> ]

\* a proposal large enough for the upper complexity bands
LargeProposal ==
  [ title |-> "Growth programme",
    summary |-> "Optimize onboarding to drive growth.",
    assumptions |-> ListOfN("assumption", 5),
    scope |-> "Workstream A covers onboarding, workstream B covers billing, workstream C covers support tooling, workstream D covers reporting and audit.",
    dependencies |-> ListOfN("dependency", 5) ]

\* a hurried proposal with more than three dependencies
HurriedProposal ==
  [ title |-> "Checkout revamp",
    summary |-> "Quick win: ship the new checkout",
    assumptions |-> ListOfN("assumption", 1),
    scope |-> "Web only",
    dependencies |-> ListOfN("dependency", 4) ]

Titles == { "", "APAC Market Expansion", "Restructuring and Layoffs" }

Summaries ==
  { "",
    "Quick plan to reduce cost and expand, fast but thorough",
    "Targeted LAYOFFS to improve margins",
    "Upgrade customer platform for $900k" }

Scopes == { " ", "TBD", "Pilot: share data with a third party" }

Proposals ==
  { [ title |-> t, summary |-> s, assumptions |-> ListOfN("assumption", a),
      scope |-> c, dependencies |-> ListOfN("dependency", d) ] :
      t \in Titles, s \in Summaries, a \in 0..MaxAssumptions,
      c \in Scopes, d \in 0..MaxDependencies }
  \cup { SeedApac, SeedEfficiency, SeedInnovationLab, LargeProposal, HurriedProposal,
         [ HurriedProposal EXCEPT !.summary = "Ship the new checkout for $900,000" ] }

\* OPENAI_API_KEY: unset, the placeholder "demo", or a credential
ApiKeys == { "", "demo", "sk-live" }

RECURSIVE Repeat(_, _)
Repeat(c, n) ==
  IF n = 0 THEN ""
  ELSE IF n = 1 THEN c
  ELSE Repeat(c, n \div 2) \o Repeat(c, n - n \div 2)

Item(sev) == [ risk |-> "risk", severity |-> sev, evidence_needed |-> "evidence" ]

Obj(members) == [ kind |-> "object", members |-> members ]

ValueLow ==
  Obj(<< [ key |-> "implicit_assumptions", value |-> << Item("low"), Item("med") >> ],
         [ key |-> "top_3_unseen_risks", value |-> << "unseen" >> ],
         [ key |-> "data_to_collect_next", value |-> << "collect" >> ],
         [ key |-> "alignment_summary", value |-> "aligned" ] >>)

ValueHighTail ==
  Obj(<< [ key |-> "tail_risks", value |-> << Item("low"), Item("high") >> ] >>)

ValueThreeHigh ==
  Obj(<< [ key |-> "metric_gaming_vectors", value |-> << Item("high"), Item("high") >> ],
         [ key |-> "cross_functional_impacts", value |-> << Item("high") >> ] >>)

ValueManyRisks ==
  Obj(<< [ key |-> "implicit_assumptions", value |-> ListOfN(Item("low"), 3) ],
         [ key |-> "second_order_effects", value |-> ListOfN(Item("low"), 2) ],
         [ key |-> "tail_risks", value |-> ListOfN(Item("med"), 2) ],
         [ key |-> "metric_gaming_vectors", value |-> ListOfN(Item("low"), 2) ],
         [ key |-> "cross_functional_impacts", value |-> ListOfN(Item("low"), 2) ] >>)

ValueBadSeverity ==
  Obj(<< [ key |-> "tail_risks", value |-> << Item("critical") >> ] >>)

ValueSixItems ==
  Obj(<< [ key |-> "second_order_effects", value |-> ListOfN(Item("low"), MaxCategoryItems + 1) ] >>)

ValueFourTop ==
  Obj(<< [ key |-> "top_3_unseen_risks", value |-> ListOfN("unseen", MaxTopRisks + 1) ] >>)

ValueLongText ==
  Obj(<< [ key |-> "implicit_assumptions",
           value |-> << [ risk |-> Repeat("x", MaxTextLength + 1), severity |-> "low",
                          evidence_needed |-> "evidence" ] >> ] >>)

ValueNumber == [ kind |-> "number", members |-> << >> ]

JsonValues ==
  { EmptyObject, ValueLow, ValueHighTail, ValueThreeHigh, ValueManyRisks,
    ValueBadSeverity, ValueSixItems, ValueFourTop, ValueLongText, ValueNumber }

Json(v) == [ tok |-> "json", value |-> v ]

Prose == [ tok |-> "prose" ]

Fence == [ tok |-> "fence" ]

Broken == [ tok |-> "broken" ]

RawTexts ==
  { << Json(v) >> : v \in JsonValues }
  \cup { << >>,
         << Prose >>,
         << Prose, Fence, Json(ValueLow), Fence, Prose >>,
         << Fence, Json(ValueSixItems), Fence >>,
         << Fence, Broken, Fence, Json(ValueLow) >>,
         << Fence, Prose, Fence, Json(ValueLow) >>,
         << Prose, Json(ValueHighTail), Prose >>,
         << Prose, Json(ValueLow), Prose, Json(ValueLow) >>,
         << Prose, Broken >> }

ClientErrors == { "Error: Connection error.", "Error: Request timed out." }

CallOutcomes ==
  { [ threw |-> TRUE, error |-> e, present |-> FALSE, raw |-> << >> ] : e \in ClientErrors }
  \cup { [ threw |-> FALSE, error |-> "", present |-> FALSE, raw |-> << >> ] }
  \cup { [ threw |-> FALSE, error |-> "", present |-> TRUE, raw |-> r ] : r \in RawTexts }

(***************************************************************************)
(* The pipelines as a state machine.  One evaluation runs at a time.       *)
(* evaluateProposal runs synchronously up to its only await (the call of   *)
(* discoverRisks) and synchronously again once that has settled; steps     *)
(* records the order in which the pipeline's stages ran.                   *)
(***************************************************************************)
VARIABLES
  apiKey,          \* process.env.OPENAI_API_KEY
  pc,              \* "idle", "awaiting" (the model client), "resume", "done", "rejected"
  form,            \* "weighted" or "outcomes": which evaluateProposal runs
  input,           \* the EvaluationInput of the running call
  features,
  scores,          \* weighted form only
  request,         \* the prompt context handed to the model client
  clientCalls,     \* calls of client.chat.completions.create in this evaluation
  response,        \* how the awaited client call settled
  discovery,       \* what discoverRisks resolved with: [risks, trace]
  confidence,      \* [confidence, reasons]
  escalation,      \* [recommendation, humanRequired, (reasons)]
  result,          \* what evaluateProposal resolved with: [decisionObject, trace]
  steps,           \* the stages run so far, in order
  kept,            \* an earlier evaluation's inputs and result, as its caller kept them
  db,              \* the database: one sequence of rows per table
  requests         \* the HTTP requests received so far, each with its position in its handler

vars == << apiKey, pc, form, input, features, scores, request, clientCalls, response,
           discovery, confidence, escalation, result, steps, kept, db, requests >>

None == [ none |-> TRUE ]

Init ==
  /\ apiKey \in ApiKeys
  /\ pc = "idle"
  /\ form = "weighted"
  /\ input = None
  /\ features = None
  /\ scores = None
  /\ request = None
  /\ clientCalls = 0
  /\ response = None
  /\ discovery = None
  /\ confidence = None
  /\ escalation = None
  /\ result = None
  /\ steps = << >>
  /\ kept = None
  /\ db = None
  /\ requests = << >>

PromptContext(f, mandate, proposal) ==
  IF f = "weighted"
  THEN [ mandateWeights |-> mandate.weights,
         riskTolerance |-> mandate.riskTolerance,
         nonNegotiables |-> mandate.nonNegotiables,
         proposalTitle |-> proposal.title,
         proposalSummary |-> proposal.summary,
         proposalScope |-> proposal.scope,
         proposalAssumptions |-> proposal.assumptions,
         proposalDependencies |-> proposal.dependencies ]
  ELSE [ outcomes |-> mandate.outcomes,
         proposalTitle |-> proposal.title,
         proposalSummary |-> proposal.summary,
         proposalScope |-> proposal.scope,
         proposalAssumptions |-> proposal.assumptions,
         proposalDependencies |-> proposal.dependencies ]

\* discoverRisks in demo mode: the mock, and no client call
discoverRisksDemo(f, ctx) ==
  [ risks |-> getMockRisks(ctx.proposalTitle, ctx.proposalSummary),
    trace |-> IF f = "weighted" THEN getMockTrace
              ELSE [ provider |-> "mock", model |-> "demo", failures |-> << >> ] ]

\* a variant whose feature extraction empties the assumptions list it was given
EvaluateConsuming(f, mandate, proposal) ==
  /\ pc = "idle"
  /\ form' = f
  /\ input' = [ mandate |-> mandate,
                proposal |-> [ proposal EXCEPT !.assumptions = << >> ] ]
  /\ LET feat == buildFeatures(proposal)
     IN /\ features' = feat
        /\ IF f = "weighted"
           THEN \E rounding \in TradeoffRoundings(mandate.weights,
                                                  estimateImpact(proposal, feat), feat) :
                  scores' = scoreProposal(mandate, proposal, feat, rounding)
           ELSE scores' = None
  /\ IF isDemo(apiKey)
     THEN /\ discovery' = discoverRisksDemo(f, PromptContext(f, mandate, proposal))
          /\ pc' = "resume"
          /\ UNCHANGED << request, clientCalls >>
     ELSE /\ request' = PromptContext(f, mandate, proposal)
          /\ clientCalls' = clientCalls + 1
          /\ pc' = "awaiting"
          /\ UNCHANGED discovery
  /\ steps' = IF f = "weighted" THEN << "features", "score", "discover" >>
              ELSE << "features", "discover" >>
  /\ UNCHANGED << apiKey, response, confidence, escalation, result, kept, db, requests >>

\* evaluateProposal is called: features, scoring (weighted form), then
\* discoverRisks, which answers from the mock or invokes the model client
Evaluate(f, mandate, proposal) ==
  /\ pc = "idle"
  /\ form' = f
  /\ input' = [ mandate |-> mandate, proposal |-> proposal ]
  /\ LET feat == buildFeatures(proposal)
     IN /\ features' = feat
        /\ IF f = "weighted"
           THEN \E rounding \in TradeoffRoundings(mandate.weights,
                                                  estimateImpact(proposal, feat), feat) :
                  scores' = scoreProposal(mandate, proposal, feat, rounding)
           ELSE scores' = None
  /\ IF isDemo(apiKey)
     THEN /\ discovery' = discoverRisksDemo(f, PromptContext(f, mandate, proposal))
          /\ pc' = "resume"
          /\ UNCHANGED << request, clientCalls >>
     ELSE /\ request' = PromptContext(f, mandate, proposal)
          /\ clientCalls' = clientCalls + 1
          /\ pc' = "awaiting"
          /\ UNCHANGED discovery
  /\ steps' = IF f = "weighted" THEN << "features", "score", "discover" >>
              ELSE << "features", "discover" >>
  /\ UNCHANGED << apiKey, response, confidence, escalation, result, kept, db, requests >>

\* a variant that invokes the client once more after a call that threw
ClientSettlesRetrying(outcome) ==
  /\ pc = "awaiting"
  /\ IF outcome.threw /\ clientCalls < 2
     THEN /\ clientCalls' = clientCalls + 1
          /\ UNCHANGED << pc, discovery, request >>
     ELSE /\ LET settled == IF form = "weighted"
                            THEN discoverRisksAfterCall(outcome)
                            ELSE discoverRisksOutcomesAfterCall(request, outcome)
             IN discovery' = settled.value
          /\ pc' = "resume"
          /\ request' = None
          /\ UNCHANGED clientCalls
  /\ response' = outcome
  /\ UNCHANGED << apiKey, form, input, features, scores, confidence, escalation,
                  result, steps, kept, db, requests >>

\* the awaited client call returns or throws; discoverRisks resolves
ClientSettles(outcome) ==
  /\ pc = "awaiting"
  /\ LET settled == IF form = "weighted"
                    THEN discoverRisksAfterCall(outcome)
                    ELSE discoverRisksOutcomesAfterCall(request, outcome)
     IN IF settled.ok
        THEN discovery' = settled.value /\ pc' = "resume"
        ELSE \* evaluateProposal has no handler of its own: it rejects
             discovery' = discovery /\ pc' = "rejected"
  /\ request' = None
  /\ response' = outcome
  /\ UNCHANGED << apiKey, form, input, features, scores, clientCalls, confidence,
                  escalation, result, steps, kept, db, requests >>

\* weighted form: confidence, escalation and the assembled decision object
AssembleWeighted(in, feat, sc, disc) ==
  LET conf == computeConfidence(feat, sc, disc.risks, disc.trace)
      esc == applyEscalation(in.mandate.riskTolerance, sc, disc.risks, conf.confidence)
  IN [ confidence |-> conf,
       escalation |-> esc,
       decisionObject |->
         [ summary |-> generateSummary(in.proposal, sc, esc.recommendation),
           impact_estimate |-> sc.impactEstimate,
           tradeoff_score |-> sc.tradeoffScore,
           conflicts |-> sc.conflicts,
           constraint_violations |-> sc.constraintViolations,
           unseen_risks |-> disc.risks,
           confidence |-> conf.confidence,
           confidence_reasons |-> conf.reasons,
           required_next_evidence |-> disc.risks.data_to_collect_next,
           recommendation |-> esc.recommendation,
           human_required |-> esc.humanRequired ] ]

\* outcome-list form
AssembleOutcomes(in, feat, disc) ==
  LET conf == computeSimpleConfidence(feat, disc.trace)
      esc == determineRecommendation(disc.risks, conf.confidence)
  IN [ confidence |-> conf,
       escalation |-> esc,
       decisionObject |->
         [ summary |-> generateSummaryOutcomes(in.proposal.title, esc.recommendation,
                                               disc.risks),
           outcomes |-> in.mandate.outcomes,
           unseen_risks |-> disc.risks,
           confidence |-> conf.confidence,
           confidence_reasons |-> conf.reasons,
           required_next_evidence |-> disc.risks.data_to_collect_next,
           recommendation |-> esc.recommendation,
           human_required |-> esc.humanRequired ] ]

\* evaluateProposal continues after the await and resolves
Resume ==
  /\ pc = "resume"
  /\ LET out == IF form = "weighted"
                THEN AssembleWeighted(input, features, scores, discovery)
                ELSE AssembleOutcomes(input, features, discovery)
     IN /\ confidence' = out.confidence
        /\ escalation' = out.escalation
        /\ result' = [ decisionObject |-> out.decisionObject, trace |-> discovery.trace ]
  /\ steps' = steps \o << "confidence", "escalation", "assemble" >>
  /\ pc' = "done"
  /\ UNCHANGED << apiKey, form, input, features, scores, request, clientCalls, response,
                  discovery, kept, db, requests >>

\* the caller has its result; the next evaluation starts from nothing
Return ==
  /\ pc = "done"
  /\ pc' = "idle"
  /\ form' = "weighted"
  /\ input' = None
  /\ features' = None
  /\ scores' = None
  /\ clientCalls' = 0
  /\ response' = None
  /\ discovery' = None
  /\ confidence' = None
  /\ escalation' = None
  /\ result' = None
  /\ steps' = << >>
  /\ UNCHANGED << apiKey, request, kept, db, requests >>

EvaluateWeighted ==
  /\ pc = "idle"
  /\ \E m \in WeightedMandates, p \in Proposals : Evaluate("weighted", m, p)

EvaluateOutcomes ==
  /\ pc = "idle"
  /\ \E m \in OutcomeMandates, p \in Proposals : Evaluate("outcomes", m, p)

ClientAnswers ==
  /\ pc = "awaiting"
  /\ \E o \in CallOutcomes : ClientSettles(o)

Next ==
  \/ EvaluateWeighted
  \/ EvaluateOutcomes
  \/ ClientAnswers
  \/ Resume
  \/ Return

Spec == Init /\ [][Next]_vars

TypeOK ==
  /\ pc \in { "idle", "awaiting", "resume", "done", "rejected" }
  /\ clientCalls \in 0..1

\* The evaluations of the seeded data: each seeded proposal against each seeded
\* mandate version.
SeedProposals == { SeedApac, SeedEfficiency, SeedInnovationLab }

EvaluateSeedWeighted ==
  /\ pc = "idle"
  /\ \E m \in { SeedMandateV1, SeedMandateV2 }, p \in SeedProposals :
       Evaluate("weighted", m, p)

EvaluateSeedOutcomes ==
  /\ pc = "idle"
  /\ \E m \in OutcomeMandates, p \in SeedProposals : Evaluate("outcomes", m, p)

SeedNext ==
  \/ EvaluateSeedWeighted
  \/ EvaluateSeedOutcomes
  \/ ClientAnswers
  \/ Resume
  \/ Return

\* The event loop runs a continuation whose promise has settled; the model
\* client eventually returns or throws.
FairSpec == Init /\ [][SeedNext]_vars /\ WF_vars(ClientAnswers) /\ WF_vars(Resume)

\* The caller of evaluateProposal keeps what the call was given and what it
\* resolved with (the harness prints it, the route stores it).
Keep ==
  /\ pc = "done"
  /\ kept = None
  /\ kept' = [ form |-> form, mandate |-> input.mandate, proposal |-> input.proposal,
               features |-> features, scores |-> scores,
               risks |-> discovery.risks, trace |-> result.trace,
               decisionObject |-> result.decisionObject ]
  /\ UNCHANGED << apiKey, pc, form, input, features, scores, request, clientCalls,
                  response, discovery, confidence, escalation, result, steps,
                  db, requests >>

\* a first evaluation of seeded data
EvaluateFirst ==
  /\ pc = "idle" /\ kept = None
  /\ \E p \in SeedProposals :
       \/ \E m \in { SeedMandateV1, SeedMandateV2 } : Evaluate("weighted", m, p)
       \/ \E m \in OutcomeMandates : Evaluate("outcomes", m, p)

\* a re-run: evaluateProposal is called again with the inputs of the kept evaluation
EvaluateAgain ==
  /\ pc = "idle" /\ kept # None
  /\ Evaluate(kept.form, kept.mandate, kept.proposal)

RepeatNext ==
  \/ EvaluateFirst
  \/ EvaluateAgain
  \/ ClientAnswers
  \/ Resume
  \/ Keep
  \/ Return

RepeatSpec == Init /\ [][RepeatNext]_vars

(***************************************************************************)
(* generateSummary (both forms) on its own: any title, any recommendation, *)
(* any numbers of violations and conflicts, any score.                     *)
(***************************************************************************)
MaxTitleLength == 300

SummaryTitles ==
  { Repeat("x", n) : n \in { 0, 1, 219, 220, 226, MaxSummaryLength, MaxTitleLength } }
  \cup { SeedApac.title }

SummaryScores ==
  { [ impactEstimate |-> [ growth |-> "Neutral", cost |-> "Unknown", risk |-> "Medium",
                           brand |-> "Neutral" ],
      tradeoffScore |-> t,
      conflicts |-> ListOfN("Speed and thoroughness goals may conflict", c),
      constraintViolations |-> ListOfN("Constraint violated: No layoffs", v) ] :
      t \in { Rat(0, 1), Rat(63, 100), Rat(1, 1) }, c \in 0..2, v \in 0..2 }

SummaryInit ==
  /\ apiKey = ""
  /\ pc = "idle"
  /\ form \in { "weighted", "outcomes" }
  /\ \E t \in SummaryTitles : input = [ proposal |-> [ title |-> t ] ]
  /\ features = None
  /\ scores \in SummaryScores
  /\ request = None
  /\ clientCalls = 0
  /\ response = None
  /\ discovery \in { [ risks |-> r ] : r \in { emptyRisks, getExpansionRisks } }
  /\ confidence = None
  /\ \E r \in { "APPROVE", "REVISE", "ESCALATE" } : escalation = [ recommendation |-> r ]
  /\ result = None
  /\ steps = << >>
  /\ kept = None
  /\ db = None
  /\ requests = << >>

Summarise(summary) ==
  /\ pc = "idle"
  /\ result' = [ summary |-> summary ]
  /\ pc' = "done"
  /\ UNCHANGED << apiKey, form, input, features, scores, request, clientCalls, response,
                  discovery, confidence, escalation, steps, kept, db, requests >>

SummariseWeighted ==
  /\ form = "weighted"
  /\ Summarise(generateSummary(input.proposal, scores, escalation.recommendation))

SummariseOutcomes ==
  /\ form = "outcomes"
  /\ Summarise(generateSummaryOutcomes(input.proposal.title, escalation.recommendation,
                                       discovery.risks))

SummaryNext ==
  \/ SummariseWeighted
  \/ SummariseOutcomes

SummarySpec == SummaryInit /\ [][SummaryNext]_vars

(***************************************************************************)
(* applyEscalation on its own: any tolerance, scores, risks and confidence *)
(***************************************************************************)
EscalationScores ==
  { [ impactEstimate |-> [ growth |-> "Neutral", cost |-> "Unknown", risk |-> "Medium",
                           brand |-> "Neutral" ],
      tradeoffScore |-> [ num |-> n, den |-> 100, err |-> e ],
      conflicts |-> << >>,
      constraintViolations |-> ListOfN("Constraint violated: No layoffs", v) ] :
      n \in { 0, 29, 30, 49, 50, 69, 70, 100 }, e \in { -1, 0 }, v \in 0..1 }

EscalationRisks ==
  { emptyRisks, getExpansionRisks, getGenericRisks,
    SchemaData(ValueHighTail), SchemaData(ValueThreeHigh),
    [ emptyRisks EXCEPT !.implicit_assumptions = ListOfN(Item("high"), 2) ] }

EscalationInit ==
  /\ apiKey = ""
  /\ pc = "idle"
  /\ form = "weighted"
  /\ \E t \in RiskTolerances : input = [ mandate |-> [ riskTolerance |-> t ] ]
  /\ features = None
  /\ scores \in EscalationScores
  /\ request = None
  /\ clientCalls = 0
  /\ response = None
  /\ \E r \in EscalationRisks : discovery = [ risks |-> r ]
  /\ \E c \in { 0, 39, 40, 100 } : confidence = [ confidence |-> c ]
  /\ escalation = None
  /\ result = None
  /\ steps = << >>
  /\ kept = None
  /\ db = None
  /\ requests = << >>

ApplyEscalation ==
  /\ pc = "idle"
  /\ escalation' = applyEscalation(input.mandate.riskTolerance, scores, discovery.risks,
                                   confidence.confidence)
  /\ pc' = "done"
  /\ UNCHANGED << apiKey, form, input, features, scores, request, clientCalls, response,
                  discovery, confidence, result, steps, kept, db, requests >>

EscalationSpec == EscalationInit /\ [][ApplyEscalation]_vars

(***************************************************************************)
(* The API routes as a state machine.  Each request runs its handler up to *)
(* the next awaited database or model call and is resumed when that call   *)
(* has settled; between two awaits of one request any step of any other    *)
(* request may run.  A row's id is its position in its table (the code     *)
(* draws a fresh cuid), 0 names no row.  The stored JSON texts are kept as *)
(* the values they encode, the checksum columns are left out.  A database  *)
(* call fails only by a declared unique index; such a throw is not caught  *)
(* by any handler and is answered 500.                                     *)
(***************************************************************************)
MaxRequests == 3

\* requests whose handler has not answered yet
MaxInFlight == 2

\* the database as the seed script and one proposal request leave it
SeedDb(f) ==
  [ mandateVersions |->
      IF f = "weighted"
      THEN << [ mandateId |-> 1, version |-> 1, isActive |-> FALSE, data |-> SeedMandateV1 ],
              [ mandateId |-> 1, version |-> 2, isActive |-> TRUE, data |-> SeedMandateV2 ] >>
      ELSE << [ mandateId |-> 1, version |-> 1, isActive |-> TRUE,
                data |-> [ outcomes |-> SeedOutcomes ] ] >>,
    proposals |-> << 1 >>,
    proposalVersions |->
      << [ proposalId |-> 1, version |-> 1, data |-> SeedApac ] >>,
    evaluations |-> << >>,
    overrides |-> << >>,
    auditLog |-> << >> ]

\* how the model client's call of one request may settle
ServerCallOutcomes ==
  { [ threw |-> TRUE, error |-> "Error: Connection error.", present |-> FALSE, raw |-> << >> ],
    [ threw |-> FALSE, error |-> "", present |-> TRUE, raw |-> << Json(ValueHighTail) >> ] }

\* the request bodies that arrive; RevisedProposal is a revision of proposal 1
\* that keeps the title and the summary
ServerRequests(f) ==
  LET Rationale20 == "Approved by the CFO."
      RevisedProposal == [ SeedApac EXCEPT !.scope = "TBD", !.assumptions = << >>,
                                           !.dependencies = << >> ]
  IN
  { [ kind |-> "evaluate", body |-> [ proposalVersionId |-> k ] ] : k \in { 1, 2 } }
  \cup { [ kind |-> "override",
           body |-> [ evaluationId |-> e, actor |-> b[1], decision |-> b[2],
                      rationale |-> b[3] ] ] :
           e \in { 1 },
           b \in { << "cfo", "REJECT", Rationale20 >>,
                   << "", "REJECT", Rationale20 >>,
                   << "cfo", "DEFER", Rationale20 >>,
                   << "cfo", "REJECT", SubSeq(Rationale20, 1, 19) >> } }
  \cup { [ kind |-> "version", body |-> [ proposalId |-> 1, data |-> p ] ] :
           p \in { RevisedProposal, [ RevisedProposal EXCEPT !.scope = "" ] } }
  \cup { [ kind |-> "proposal", body |-> [ data |-> SeedInnovationLab ] ] }
  \cup { [ kind |-> "mandate", body |-> [ mandateId |-> 1, data |-> m ] ] :
           m \in IF f = "weighted"
                 THEN { [ SeedMandateV1 EXCEPT !.riskTolerance = "CONSERVATIVE" ],
                        [ SeedMandateV1 EXCEPT !.riskTolerance = "RECKLESS" ] }
                 ELSE { [ outcomes |-> << "Ship by Feb 15" >> ], [ outcomes |-> << >> ] } }
  \cup { [ kind |-> "activate", body |-> [ versionId |-> b[1], activate |-> b[2] ] ] :
           b \in { << Len(SeedDb(f).mandateVersions) + 1, TRUE >>,
                   << Len(SeedDb(f).mandateVersions) + 1, FALSE >> } }

OverrideSchemaAcceptsShort(body) ==
  /\ Len(body.actor) >= 1
  /\ body.decision \in { "APPROVE", "REJECT", "ESCALATE" }
  /\ Len(body.rationale) >= 1

OverrideSchemaAccepts(body) ==
  /\ Len(body.actor) >= 1
  /\ body.decision \in { "APPROVE", "REJECT", "ESCALATE" }
  /\ Len(body.rationale) >= 20

CreateVersionSchemaAccepts(body) ==
  /\ Len(body.data.title) >= 1
  /\ Len(body.data.summary) >= 1
  /\ Len(body.data.scope) >= 1

CreateMandateVersionSchemaAccepts(f, body) ==
  IF f = "weighted"
  THEN /\ \A k \in DOMAIN body.data.weights : body.data.weights[k] \in 0..20
       /\ body.data.riskTolerance \in { "CONSERVATIVE", "MODERATE", "AGGRESSIVE" }
  ELSE /\ Len(body.data.outcomes) \in 1..10
       /\ \A k \in 1..Len(body.data.outcomes) : Len(body.data.outcomes[k]) \in 1..200

\* the inputsSnapshot column of a new evaluation
InputsSnapshot(f, mvId, mv, pvId, pv) ==
  IF f = "weighted"
  THEN [ mandate |-> [ id |-> mvId, version |-> mv.version, weights |-> mv.data.weights,
                       riskTolerance |-> mv.data.riskTolerance,
                       nonNegotiables |-> mv.data.nonNegotiables ],
         proposal |-> [ id |-> pvId, version |-> pv.version, title |-> pv.data.title,
                        summary |-> pv.data.summary, scope |-> pv.data.scope,
                        assumptions |-> pv.data.assumptions,
                        dependencies |-> pv.data.dependencies ] ]
  ELSE [ mandate |-> [ outcomes |-> mv.data.outcomes ],
         proposal |-> [ title |-> pv.data.title, summary |-> pv.data.summary ] ]

\* the whole of evaluateProposal on one input, one settled model call and one
\* rounding of the score
EvaluateAlone(f, key, in, outcome, err) ==
  LET feat == buildFeatures(in.proposal)
      sc == IF f = "weighted" THEN scoreProposal(in.mandate, in.proposal, feat, err)
            ELSE None
      ctx == PromptContext(f, in.mandate, in.proposal)
      disc == IF isDemo(key) THEN discoverRisksDemo(f, ctx)
              ELSE IF f = "weighted" THEN discoverRisksAfterCall(outcome).value
              ELSE discoverRisksOutcomesAfterCall(ctx, outcome).value
  IN IF f = "weighted" THEN AssembleWeighted(in, feat, sc, disc).decisionObject
     ELSE AssembleOutcomes(in, feat, disc).decisionObject

Insert(d, table, row) == [ d EXCEPT ![table] = Append(@, row) ]

\* a variant whose override also rewrites the recommendation it overrides
CreateOverridePatching(d, row) ==
  [ Insert(d, "overrides", row) EXCEPT
      !.evaluations[row.evaluationId].decisionObject.recommendation = row.decision ]

CreateOverride(d, row) == Insert(d, "overrides", row)

\* a variant whose audit entries name no entity
AuditEntryUnnamed(actor, action, entityType, entityId) ==
  [ actor |-> actor, action |-> action, entityType |-> entityType, entityId |-> 0 ]

AuditEntry(actor, action, entityType, entityId) ==
  [ actor |-> actor, action |-> action, entityType |-> entityType, entityId |-> entityId ]

\* a variant that keeps the locals of an evaluation in one module-level slot,
\* written by whichever evaluation ran last
LocalsShared(reqs, i) ==
  LET set == { j \in 1..Len(reqs) : reqs[j].kind = "evaluate"
                                      /\ reqs[j].scratch.discovery # None }
  IN reqs[CHOOSE j \in set : \A k \in set : k <= j].scratch

\* the local variables of request i's handler
Locals(reqs, i) == reqs[i].scratch

Goes(i, at, scratch) ==
  requests' = [ requests EXCEPT ![i].at = at, ![i].scratch = scratch ]

Answers(i, status, answer) ==
  requests' = [ requests EXCEPT ![i].at = "answered", ![i].status = status,
                                ![i].answer = answer ]

\* the last await of every creating handler: the audit entry, then the response
Audits(i, actor, action, entityType, entityId) ==
  /\ db' = Insert(db, "auditLog", AuditEntry(actor, action, entityType, entityId))
  /\ Answers(i, 200, [ id |-> entityId ])

\* findFirst({ where: { mandateId / proposalId }, orderBy: { version: 'desc' } })
NextVersion(rows, key, id) ==
  LET versions == { rows[k].version : k \in { k \in 1..Len(rows) : rows[k][key] = id } }
  IN IF versions = {} THEN 1 ELSE (CHOOSE v \in versions : \A w \in versions : w <= v) + 1

VersionTaken(rows, key, id, version) ==
  \E k \in 1..Len(rows) : rows[k][key] = id /\ rows[k].version = version

\* the deployment's key and revision, and the state of the single evaluation
\* of the sections above, which no route touches
evaluationVars == << apiKey, form, pc, input, features, scores, request, clientCalls,
                     response, discovery, confidence, escalation, result, steps, kept >>

Arrive ==
  /\ UNCHANGED evaluationVars
  /\ Len(requests) < MaxRequests
  /\ Cardinality({ i \in 1..Len(requests) : requests[i].status = 0 }) < MaxInFlight
  /\ \E r \in ServerRequests(form) :
       requests' = Append(requests,
         [ kind |-> r.kind, body |-> r.body, at |-> "start", status |-> 0, answer |-> None,
           scratch |-> IF r.kind = "evaluate"
                       THEN [ mandateVersionId |-> 0, mandateVersion |-> None,
                              proposalVersion |-> None,
                              input |-> None, features |-> None, scores |-> None,
                              response |-> None, discovery |-> None, created |-> 0 ]
                       ELSE [ found |-> 0, created |-> 0 ] ])
  /\ UNCHANGED db

\* POST /api/evaluations
EvaluationPost(i) ==
  /\ UNCHANGED evaluationVars
  /\ requests[i].kind = "evaluate"
  /\ LET r == requests[i]
         mine == r.scratch
     IN \/ /\ r.at = "start"
           /\ LET active == { k \in 1..Len(db.mandateVersions) :
                                db.mandateVersions[k].isActive }
              IN IF active = {}
                 THEN Answers(i, 400, "No active mandate")
                 ELSE \E k \in active :   \* findFirst without an order
                        Goes(i, "findProposal",
                             [ mine EXCEPT !.mandateVersionId = k,
                                           !.mandateVersion = db.mandateVersions[k] ])
           /\ UNCHANGED db
        \/ /\ r.at = "findProposal"
           /\ IF r.body.proposalVersionId \notin 1..Len(db.proposalVersions)
              THEN Answers(i, 404, "Proposal version not found")
              ELSE LET pv == db.proposalVersions[r.body.proposalVersionId]
                       in == [ mandate |-> mine.mandateVersion.data, proposal |-> pv.data ]
                       feat == buildFeatures(in.proposal)
                       ctx == PromptContext(form, in.mandate, in.proposal)
                   IN \E rounding \in IF form = "weighted"
                                      THEN TradeoffRoundings(in.mandate.weights,
                                             estimateImpact(in.proposal, feat), feat)
                                      ELSE { 0 } :
                        LET sc == IF form = "weighted"
                                  THEN scoreProposal(in.mandate, in.proposal, feat, rounding)
                                  ELSE None
                            started == [ mine EXCEPT !.proposalVersion = pv, !.input = in,
                                                     !.features = feat, !.scores = sc ]
                        IN IF isDemo(apiKey)
                           THEN Goes(i, "create",
                                     [ started EXCEPT
                                         !.discovery = discoverRisksDemo(form, ctx) ])
                           ELSE Goes(i, "awaiting", started)
           /\ UNCHANGED db
        \/ /\ r.at = "awaiting"
           /\ \E outcome \in ServerCallOutcomes :
                LET settled == IF form = "weighted"
                               THEN discoverRisksAfterCall(outcome)
                               ELSE discoverRisksOutcomesAfterCall(
                                      PromptContext(form, mine.input.mandate,
                                                    mine.input.proposal), outcome)
                IN IF settled.ok
                   THEN Goes(i, "create", [ mine EXCEPT !.response = outcome,
                                                        !.discovery = settled.value ])
                   ELSE Answers(i, 500, settled.error)
           /\ UNCHANGED db
        \/ /\ r.at = "create"
           /\ LET my == Locals(requests, i)
                  out == IF form = "weighted"
                         THEN AssembleWeighted(my.input, my.features, my.scores, my.discovery)
                         ELSE AssembleOutcomes(my.input, my.features, my.discovery)
              IN db' = Insert(db, "evaluations",
                         [ mandateVersionId |-> my.mandateVersionId,
                           proposalVersionId |-> r.body.proposalVersionId,
                           decisionObject |-> out.decisionObject,
                           inputsSnapshot |->
                             InputsSnapshot(form, my.mandateVersionId, my.mandateVersion,
                                            r.body.proposalVersionId, my.proposalVersion),
                           modelTrace |-> my.discovery.trace ])
           /\ Goes(i, "audit", [ mine EXCEPT !.created = Len(db.evaluations) + 1 ])
        \/ /\ r.at = "audit"
           /\ Audits(i, "system", "EVALUATE", "Evaluation", mine.created)

\* POST /api/override
OverridePost(i) ==
  /\ UNCHANGED evaluationVars
  /\ requests[i].kind = "override"
  /\ LET r == requests[i]
     IN \/ /\ r.at = "start"
           /\ IF ~OverrideSchemaAccepts(r.body)
              THEN Answers(i, 400, "parse")
              ELSE IF r.body.evaluationId \notin 1..Len(db.evaluations)
              THEN Answers(i, 404, "Evaluation not found")
              ELSE Goes(i, "create", [ r.scratch EXCEPT !.found = r.body.evaluationId ])
           /\ UNCHANGED db
        \/ /\ r.at = "create"
           /\ db' = CreateOverride(db, r.body)
           /\ Goes(i, "audit", [ r.scratch EXCEPT !.created = Len(db.overrides) + 1 ])
        \/ /\ r.at = "audit"
           /\ Audits(i, r.body.actor, "OVERRIDE", "OverrideDecision", r.scratch.created)

\* POST /api/proposals/[id]
ProposalVersionPost(i) ==
  /\ UNCHANGED evaluationVars
  /\ requests[i].kind = "version"
  /\ LET r == requests[i]
     IN \/ /\ r.at = "start"
           /\ IF ~CreateVersionSchemaAccepts(r.body)
              THEN Answers(i, 400, "parse")
              ELSE Goes(i, "create",
                        [ r.scratch EXCEPT !.found =
                            NextVersion(db.proposalVersions, "proposalId",
                                        r.body.proposalId) ])
           /\ UNCHANGED db
        \/ /\ r.at = "create"
           /\ IF VersionTaken(db.proposalVersions, "proposalId", r.body.proposalId,
                              r.scratch.found)
              THEN Answers(i, 500, "Unique constraint failed") /\ UNCHANGED db
              ELSE /\ db' = Insert(db, "proposalVersions",
                              [ proposalId |-> r.body.proposalId,
                                version |-> r.scratch.found, data |-> r.body.data ])
                   /\ Goes(i, "audit",
                           [ r.scratch EXCEPT !.created = Len(db.proposalVersions) + 1 ])
        \/ /\ r.at = "audit"
           /\ Audits(i, "system", "CREATE", "ProposalVersion", r.scratch.created)

\* POST /api/proposals: a new proposal and its first version; created is the
\* proposal's id, found the version's
ProposalPost(i) ==
  /\ UNCHANGED evaluationVars
  /\ requests[i].kind = "proposal"
  /\ LET r == requests[i]
     IN \/ /\ r.at = "start"
           /\ IF ~CreateVersionSchemaAccepts(r.body)
              THEN Answers(i, 400, "parse") /\ UNCHANGED db
              ELSE /\ db' = Insert(db, "proposals", Len(db.proposals) + 1)
                   /\ Goes(i, "create", [ r.scratch EXCEPT !.created = Len(db.proposals) + 1 ])
        \/ /\ r.at = "create"
           /\ db' = Insert(db, "proposalVersions",
                      [ proposalId |-> r.scratch.created, version |-> 1,
                        data |-> r.body.data ])
           /\ Goes(i, "audit", [ r.scratch EXCEPT !.found = Len(db.proposalVersions) + 1 ])
        \/ /\ r.at = "audit"
           /\ Audits(i, "system", "CREATE", "Proposal", r.scratch.created)

\* POST /api/mandates: the weighted revision adds an inactive version, the
\* outcome-list revision deactivates the active one and adds an active version
MandatePost(i) ==
  /\ UNCHANGED evaluationVars
  /\ requests[i].kind = "mandate"
  /\ LET r == requests[i]
     IN \/ /\ r.at = "start"
           /\ IF ~CreateMandateVersionSchemaAccepts(form, r.body)
              THEN Answers(i, 400, "parse")
              ELSE Goes(i, IF form = "weighted" THEN "create" ELSE "deactivate",
                        [ r.scratch EXCEPT !.found =
                            NextVersion(db.mandateVersions, "mandateId",
                                        r.body.mandateId) ])
           /\ UNCHANGED db
        \/ /\ r.at = "deactivate"
           /\ db' = [ db EXCEPT !.mandateVersions =
                        [ k \in DOMAIN @ |->
                            IF @[k].mandateId = r.body.mandateId
                            THEN [ @[k] EXCEPT !.isActive = FALSE ] ELSE @[k] ] ]
           /\ Goes(i, "create", r.scratch)
        \/ /\ r.at = "create"
           /\ IF VersionTaken(db.mandateVersions, "mandateId", r.body.mandateId,
                              r.scratch.found)
              THEN Answers(i, 500, "Unique constraint failed") /\ UNCHANGED db
              ELSE /\ db' = Insert(db, "mandateVersions",
                              [ mandateId |-> r.body.mandateId, version |-> r.scratch.found,
                                isActive |-> form = "outcomes", data |-> r.body.data ])
                   /\ Goes(i, "audit",
                           [ r.scratch EXCEPT !.created = Len(db.mandateVersions) + 1 ])
        \/ /\ r.at = "audit"
           /\ Audits(i, "system", "CREATE", "MandateVersion", r.scratch.created)

\* PATCH /api/mandates
MandatePatch(i) ==
  /\ UNCHANGED evaluationVars
  /\ requests[i].kind = "activate"
  /\ LET r == requests[i]
     IN \/ /\ r.at = "start"
           /\ IF ~r.body.activate
              THEN Answers(i, 400, "Invalid operation")
              ELSE IF r.body.versionId \notin 1..Len(db.mandateVersions)
              THEN Answers(i, 404, "Version not found")
              ELSE Goes(i, "deactivate",
                        [ r.scratch EXCEPT !.found =
                            db.mandateVersions[r.body.versionId].mandateId ])
           /\ UNCHANGED db
        \/ /\ r.at = "deactivate"
           /\ db' = [ db EXCEPT !.mandateVersions =
                        [ k \in DOMAIN @ |->
                            IF @[k].mandateId = r.scratch.found
                            THEN [ @[k] EXCEPT !.isActive = FALSE ] ELSE @[k] ] ]
           /\ Goes(i, "activate", r.scratch)
        \/ /\ r.at = "activate"
           /\ db' = [ db EXCEPT !.mandateVersions[r.body.versionId].isActive = TRUE ]
           /\ Goes(i, "audit", [ r.scratch EXCEPT !.created = r.body.versionId ])
        \/ /\ r.at = "audit"
           /\ Audits(i, "system", "ACTIVATE", "MandateVersion", r.scratch.created)

ServerInit ==
  /\ apiKey \in { "", "sk-live" }
  /\ form \in { "weighted", "outcomes" }
  /\ db = SeedDb(form)
  /\ requests = << >>
  /\ pc = "idle"
  /\ input = None
  /\ features = None
  /\ scores = None
  /\ request = None
  /\ clientCalls = 0
  /\ response = None
  /\ discovery = None
  /\ confidence = None
  /\ escalation = None
  /\ result = None
  /\ steps = << >>
  /\ kept = None

ServerNext ==
  \/ Arrive
  \/ \E i \in 1..Len(requests) : EvaluationPost(i)
  \/ \E i \in 1..Len(requests) : OverridePost(i)
  \/ \E i \in 1..Len(requests) : ProposalPost(i)
  \/ \E i \in 1..Len(requests) : ProposalVersionPost(i)
  \/ \E i \in 1..Len(requests) : MandatePost(i)
  \/ \E i \in 1..Len(requests) : MandatePatch(i)

ServerSpec == ServerInit /\ [][ServerNext]_vars

(***************************************************************************)
(* Properties                                                              *)
(***************************************************************************)
Decided == pc = "done"

Decision == result.decisionObject

Escalated == Decision.recommendation = "ESCALATE" /\ Decision.human_required = TRUE

\* C1: in the weighted pipeline, a decision whose scores report at least one
\* constraint violation is ESCALATE with human_required, whatever the tradeoff
\* score, confidence, risk tolerance and discovered risks.
ViolationsEscalate ==
  (Decided /\ form = "weighted" /\ Len(scores.constraintViolations) > 0) => Escalated

\* a violation escalates a proposal that every later rule would have approved
\* without human review
ViolationsEscalateWitness ==
  /\ Decided /\ form = "weighted"
  /\ Len(scores.constraintViolations) = 1
  /\ confidence.confidence >= 40
  /\ ~HasHigh(discovery.risks.tail_risks)
  /\ highSeverityCount(discovery.risks) < 3
  /\ RatGE(scores.tradeoffScore, Rat(7, 10))
  /\ input.mandate.riskTolerance = "AGGRESSIVE"
  /\ Escalated

\* C2: in both pipelines, a decision whose confidence is below 0.4 is ESCALATE
\* with human_required, whatever the risks and the other scores.
LowConfidenceEscalates ==
  (Decided /\ Decision.confidence < 40) => Escalated

\* low confidence alone escalates: no violation, no high-severity risk, and a
\* tradeoff score that would otherwise approve
LowConfidenceEscalatesWitness ==
  /\ Decided /\ form = "weighted"
  /\ Decision.confidence < 40
  /\ Len(scores.constraintViolations) = 0
  /\ highSeverityCount(discovery.risks) = 0
  /\ RatGE(scores.tradeoffScore, Rat(5, 10))
  /\ Escalated

\* the same in the outcome-list pipeline, with no high-severity risk
LowConfidenceEscalatesOutcomes ==
  /\ Decided /\ form = "outcomes"
  /\ Decision.confidence < 40
  /\ highSeverityCount(discovery.risks) = 0
  /\ Escalated

DecisionFields ==
  IF form = "weighted"
  THEN { "summary", "impact_estimate", "tradeoff_score", "conflicts",
         "constraint_violations", "unseen_risks", "confidence", "confidence_reasons",
         "required_next_evidence", "recommendation", "human_required" }
  ELSE { "summary", "outcomes", "unseen_risks", "confidence", "confidence_reasons",
         "required_next_evidence", "recommendation", "human_required" }

Resolved ==
  /\ Decided
  /\ DOMAIN result = { "decisionObject", "trace" }
  /\ DOMAIN Decision = DecisionFields
  /\ Decision.recommendation \in { "APPROVE", "REVISE", "ESCALATE" }
  /\ { "provider", "model", "failures" } \subseteq DOMAIN result.trace

\* C3: every call of evaluateProposal that has started eventually resolves with
\* a complete decision object and a trace, and no call ever rejects, whatever
\* the model client returned or threw.
EvaluationResolves ==
  /\ [](pc # "rejected")
  /\ (pc \in { "awaiting", "resume" }) ~> Resolved

\* an evaluation resolved although the client call or the JSON guard threw
EvaluationResolvesWitness ==
  /\ Resolved /\ clientCalls = 1
  /\ Len(result.trace.failures) > 0

\* The ways a settled client call counts as failed: the call threw, or its text
\* holds no JSON value, or every JSON value in it violates the risk schema.
JsonTokens(raw) == { i \in 1..Len(raw) : raw[i].tok = "json" }

CallFailed(o) ==
  \/ o.threw
  \/ /\ o.present
     /\ \A i \in JsonTokens(o.raw) : ~SchemaAccepts(o.raw[i].value)

Credentialed == ~isDemo(apiKey)

Discovered == pc \in { "resume", "done" }

\* C4: in credentialed mode, when the client call threw, or its text held no
\* parsable JSON, or the parsed value violated the risk schema, discoverRisks
\* resolved (no exception) with the empty risk set and a trace with exactly one
\* failure entry.
FailureGivesEmptyRisks ==
  /\ pc # "rejected"
  /\ (Credentialed /\ Discovered /\ CallFailed(response))
       => /\ discovery.risks = emptyRisks
          /\ Len(discovery.trace.failures) = 1

\* the outcome-list discoverRisks answers a thrown client call with the mock's
\* expansion set
FailureGivesMockRisks ==
  /\ Discovered /\ form = "outcomes" /\ Credentialed
  /\ response.threw
  /\ discovery.risks = getExpansionRisks
  /\ Len(discovery.trace.failures) = 1

\* C5: a decision made after a failed risk-discovery call (trace.failures is
\* non-empty) is ESCALATE, and its confidence is strictly lower than the one
\* computed from the same inputs with an empty failures list.
WithoutFailures(trace) == [ trace EXCEPT !.failures = << >> ]

ConfidenceWithoutFailures ==
  IF form = "weighted"
  THEN computeConfidence(features, scores, discovery.risks,
                         WithoutFailures(discovery.trace)).confidence
  ELSE computeSimpleConfidence(features, WithoutFailures(discovery.trace)).confidence

FailureEscalates ==
  (Decided /\ Len(result.trace.failures) > 0)
    => /\ Decision.recommendation = "ESCALATE"
       /\ Decision.confidence < ConfidenceWithoutFailures

\* the seeded APAC proposal against seeded mandate version 1, the client call
\* having thrown: APPROVE at confidence 0.6
FailureApproved ==
  /\ Decided /\ form = "weighted"
  /\ input.proposal = SeedApac /\ input.mandate = SeedMandateV1
  /\ Credentialed /\ response.threw
  /\ Len(result.trace.failures) = 1
  /\ Decision.confidence = 60
  /\ Decision.recommendation = "APPROVE"

\* C6: for every mandate (all four weights zero included) and every proposal
\* (all five fields missing included), the tradeoff score and the confidence of
\* an evaluation lie in [0, 1].
ScoresWithinUnitInterval ==
  /\ (pc \in { "awaiting", "resume", "done" } /\ form = "weighted")
       => /\ RatGE(scores.tradeoffScore, Rat(0, 1))
          /\ RatGE(Rat(1, 1), scores.tradeoffScore)
  /\ Decided => Decision.confidence \in 0..100

\* all weights zero, all five fields missing and a failed call: the penalties
\* exceed the base confidence
ScoresWithinUnitIntervalWitness ==
  /\ Decided /\ form = "weighted"
  /\ input.mandate.weights = ZeroWeights
  /\ features.missingFieldsCount = 5
  /\ Len(result.trace.failures) > 0
  /\ Decision.confidence = 0
  /\ Decision.tradeoff_score = Rat(1, 2)

ProposalText(proposal) ==
  ToLowerCase(proposal.title \o " " \o proposal.summary \o " " \o proposal.scope)

ForbidsLayoffs(mandate) ==
  \E i \in 1..Len(mandate.nonNegotiables) :
      Includes(ToLowerCase(mandate.nonNegotiables[i]), "no layoff")

MentionsLayoff(proposal) ==
  \/ Includes(ToLowerCase(proposal.title), "layoff")
  \/ Includes(ToLowerCase(proposal.summary), "layoff")
  \/ Includes(ToLowerCase(proposal.scope), "layoff")

\* C7: in the weighted pipeline, a mandate with a non-negotiable containing
\* "no layoff" and a proposal whose title, summary or scope contains "layoff"
\* (both case-insensitive) give a non-empty constraint_violations list and
\* ESCALATE with human_required.
LayoffEscalates ==
  (Decided /\ form = "weighted" /\ ForbidsLayoffs(input.mandate)
   /\ MentionsLayoff(input.proposal))
    => /\ Len(Decision.constraint_violations) > 0
       /\ Escalated

\* "LAYOFFS" in upper case in the summary only, the layoff constraint the only
\* one violated, and a model response without risks
LayoffEscalatesWitness ==
  /\ Decided /\ form = "weighted"
  /\ ForbidsLayoffs(input.mandate)
  /\ Includes(input.proposal.summary, "LAYOFFS")
  /\ ~Includes(ToLowerCase(input.proposal.title), "layoff")
  /\ Decision.constraint_violations = << "Constraint violated: No layoffs" >>
  /\ Credentialed /\ TotalRisks(discovery.risks) = 0
  /\ Escalated

\* C8: a proposal under Scenario A's conditions (weights 0.4/0.2/0.3/0.1, a
\* summary mentioning "expand", no currency figure, 3 dependencies, no violated
\* non-negotiable, confidence at least 0.7, tolerance not CONSERVATIVE) gets
\* APPROVE; and so does the seeded proposal 'APAC Market Expansion' against the
\* seeded active mandate when no credential is configured.
ScenarioA ==
  /\ input.mandate.weights = SeedWeightsV1
  /\ Includes(ToLowerCase(input.proposal.summary), "expand")
  /\ MatchCurrency(ProposalText(input.proposal)) = ""
  /\ Len(input.proposal.dependencies) = 3
  /\ Len(Decision.constraint_violations) = 0
  /\ Decision.confidence >= 70
  /\ input.mandate.riskTolerance # "CONSERVATIVE"

SeededDemo ==
  /\ ~Credentialed
  /\ input.proposal = SeedApac
  /\ input.mandate = SeedMandateV2

ScenarioAApproves ==
  (Decided /\ form = "weighted" /\ (ScenarioA \/ SeededDemo))
    => Decision.recommendation = "APPROVE"

\* the seeded APAC proposal against the seeded active mandate, no credential:
\* ESCALATE because the mock's expansion set has a high-severity tail risk
SeededDemoEscalates ==
  /\ Decided /\ form = "weighted" /\ SeededDemo
  /\ Decision.confidence = 90
  /\ Decision.unseen_risks = getExpansionRisks
  /\ escalation.reasons = << "High-severity tail risk identified" >>
  /\ Decision.recommendation = "ESCALATE"

\* C9: a proposal with no assumptions, no dependencies and scope "TBD" has
\* missingFieldsCount of at least 3, a confidence below 0.4 and the
\* recommendation ESCALATE.
ScenarioC ==
  /\ input.proposal.assumptions = << >>
  /\ input.proposal.dependencies = << >>
  /\ input.proposal.scope = "TBD"

ScenarioCEscalates ==
  (Decided /\ form = "weighted" /\ ScenarioC)
    => /\ features.missingFieldsCount >= 3
       /\ Decision.confidence < 40
       /\ Decision.recommendation = "ESCALATE"

\* the seeded 'Innovation Lab Setup' proposal, a model response without high
\* risks: two missing fields, confidence 0.45, APPROVE
ScenarioCApproved ==
  /\ Decided /\ form = "weighted" /\ ScenarioC
  /\ input.proposal = SeedInnovationLab
  /\ features.missingFieldsCount = 2
  /\ Decision.confidence = 45
  /\ Decision.recommendation = "APPROVE"

MockText == ToLowerCase(input.proposal.title \o " " \o input.proposal.summary)

HasAny(text, words) == \E w \in words : Includes(text, w)

ExpansionWords == { "expansion", "market", "apac", "region" }

CostCuttingWords == { "cost", "cut", "reduce", "efficiency" }

TechWords == { "tech", "infrastructure", "platform" }

\* C10: with no credential configured the model client is never invoked, the
\* trace has no failures, and the risk set is the one of the first keyword
\* family (expansion, cost-cutting, technology, else generic) that matches the
\* lower-cased title and summary; a title containing "market expansion" gets
\* the expansion set.
DemoIsDeterministic ==
  (apiKey \in { "", "demo" })
    => /\ clientCalls = 0 /\ pc # "awaiting"
       /\ Discovered =>
            /\ discovery.trace.failures = << >>
            /\ discovery.risks =
                 IF HasAny(MockText, ExpansionWords) THEN getExpansionRisks
                 ELSE IF HasAny(MockText, CostCuttingWords) THEN getCostCuttingRisks
                 ELSE IF HasAny(MockText, TechWords) THEN getTechRisks
                 ELSE getGenericRisks
            /\ Includes(ToLowerCase(input.proposal.title), "market expansion")
                 => discovery.risks = getExpansionRisks

\* a title with "Market Expansion" and a summary with cost-cutting keywords
DemoIsDeterministicWitness ==
  /\ apiKey = "" /\ Decided
  /\ Includes(input.proposal.title, "Market Expansion")
  /\ HasAny(ToLowerCase(input.proposal.summary), CostCuttingWords)
  /\ Decision.unseen_risks = getExpansionRisks
  /\ result.trace.failures = << >>
  /\ clientCalls = 0

\* the limits of the risk schema, on a risk set as discoverRisks returns it
ItemsWithinSchema(list) ==
  /\ Len(list) <= 5
  /\ \A i \in 1..Len(list) :
       /\ Len(list[i].risk) <= 200
       /\ Len(list[i].evidence_needed) <= 200
       /\ list[i].severity \in { "low", "med", "high" }

TextsWithinSchema(list, most) ==
  /\ Len(list) <= most
  /\ \A i \in 1..Len(list) : Len(list[i]) <= 200

WithinSchema(risks) ==
  /\ ItemsWithinSchema(risks.implicit_assumptions)
  /\ ItemsWithinSchema(risks.second_order_effects)
  /\ ItemsWithinSchema(risks.tail_risks)
  /\ ItemsWithinSchema(risks.metric_gaming_vectors)
  /\ ItemsWithinSchema(risks.cross_functional_impacts)
  /\ TextsWithinSchema(risks.top_3_unseen_risks, 3)
  /\ TextsWithinSchema(risks.data_to_collect_next, 5)

\* C11: every risk set discoverRisks resolves with (a mock set, a parsed model
\* response, or the substitute after a failure) has at most 5 items in each of
\* the five category lists, at most 3 top unseen risks, at most 5 data items,
\* texts of at most 200 characters, and severities among low, med, high; and
\* so has each of the four mock sets.
RisksWithinSchema ==
  /\ \A mock \in { getExpansionRisks, getCostCuttingRisks, getTechRisks, getGenericRisks } :
       WithinSchema(mock)
  /\ Discovered => WithinSchema(discovery.risks)

\* the model answered with eleven risks in all five categories, and they were
\* taken over as parsed
RisksWithinSchemaWitness ==
  /\ Discovered /\ Credentialed
  /\ ~response.threw /\ response.raw = << Json(ValueManyRisks) >>
  /\ TotalRisks(discovery.risks) = 11
  /\ discovery.trace.failures = << >>
  /\ WithinSchema(discovery.risks)

\* the running evaluation was given what the kept one was given; the score's
\* rounding error is a function of its operands, so it is the same in both
SameInputsAsKept ==
  /\ kept # None /\ kept.form = form
  /\ kept.mandate = input.mandate /\ kept.proposal = input.proposal
  /\ form = "weighted" => kept.scores.tradeoffScore.err = scores.tradeoffScore.err

SameDiscoveryAsKept ==
  /\ kept.risks = discovery.risks /\ kept.trace = discovery.trace

StepOrder ==
  IF form = "weighted"
  THEN << "features", "score", "discover", "confidence", "escalation", "assemble" >>
  ELSE << "features", "discover", "confidence", "escalation", "assemble" >>

\* C13: the steps of an evaluation run in the order feature extraction, scoring
\* (weighted form), risk discovery, confidence, escalation, assembly; confidence
\* and escalation are computed only once the risk-discovery call has returned
\* or failed; the model client is invoked at most once per evaluation, never
\* without a credential, and not again after a failed call.
StepsInOrder ==
  /\ Len(steps) <= Len(StepOrder) /\ steps = SubSeq(StepOrder, 1, Len(steps))
  /\ (confidence # None \/ escalation # None)
       => /\ discovery # None /\ pc = "done"
          /\ apiKey = "sk-live" => response # None
  /\ pc = "awaiting" => /\ discovery = None /\ response = None
                        /\ steps[Len(steps)] = "discover"
  /\ clientCalls <= 1
  /\ apiKey \in { "", "demo" } => clientCalls = 0
  /\ (response # None /\ CallFailed(response)) => clientCalls = 1 /\ pc # "awaiting"

\* a weighted evaluation ran all six steps, its one client call having thrown
StepsInOrderWitness ==
  /\ Decided /\ form = "weighted"
  /\ steps = << "features", "score", "discover", "confidence", "escalation", "assemble" >>
  /\ apiKey = "sk-live" /\ response.threw /\ clientCalls = 1
  /\ Len(result.trace.failures) = 1

StartsWith(s, prefix) == Len(s) >= Len(prefix) /\ SubSeq(s, 1, Len(prefix)) = prefix

\* C16: whatever the title's length and the recommendation, the summary has at
\* most 240 characters, starts with "Proceed with" for APPROVE, "Revise" for
\* REVISE and "Escalate" for ESCALATE, and mentions a number of constraint
\* violations or of conflicts only when that number is not zero.
SummaryWithinLimit ==
  pc = "done"
    => /\ Len(result.summary) <= 240
       /\ escalation.recommendation = "APPROVE" => StartsWith(result.summary, "Proceed with")
       /\ escalation.recommendation = "REVISE" => StartsWith(result.summary, "Revise")
       /\ escalation.recommendation = "ESCALATE" => StartsWith(result.summary, "Escalate")
       /\ Includes(result.summary, "constraint violation(s)")
            => form = "weighted" /\ Len(scores.constraintViolations) > 0
       /\ Includes(result.summary, "conflict(s) detected")
            => form = "weighted" /\ Len(scores.conflicts) > 0

\* a title of 300 characters: the summary is cut at 240 and the counts are lost
SummaryWithinLimitWitness ==
  /\ pc = "done" /\ form = "weighted"
  /\ Len(input.proposal.title) = MaxTitleLength
  /\ Len(scores.constraintViolations) = 2 /\ Len(scores.conflicts) = 1
  /\ Len(result.summary) = 240
  /\ ~Includes(result.summary, "constraint violation(s)")

HighItems(risks) ==
  Cardinality({ << c, i >> \in (1..5) \X (1..MaxCategoryItems) :
                  /\ i <= Len(risks[RiskCategories[c]])
                  /\ risks[RiskCategories[c]][i].severity = "high" })

\* the score is at least n/10, as computed
ScoreAtLeast(x, n) ==
  \/ 10 * x.num > n * x.den
  \/ 10 * x.num = n * x.den /\ x.err >= 0

\* the number of the first rule of the ladder that matches
FirstRule ==
  IF Len(scores.constraintViolations) > 0 THEN 1
  ELSE IF confidence.confidence < 40 THEN 2
  ELSE IF \E i \in 1..Len(discovery.risks.tail_risks) :
            discovery.risks.tail_risks[i].severity = "high" THEN 3
  ELSE IF HighItems(discovery.risks) >= 3 THEN 4
  ELSE IF ScoreAtLeast(scores.tradeoffScore, 7) THEN 5
  ELSE IF ScoreAtLeast(scores.tradeoffScore, 5) THEN 6
  ELSE IF ScoreAtLeast(scores.tradeoffScore, 3) THEN 7
  ELSE 8

RuleOutcome(rule) ==
  IF rule \in 1..4 THEN << "ESCALATE", TRUE >>
  ELSE IF rule = 5 THEN << "APPROVE", input.mandate.riskTolerance = "CONSERVATIVE" >>
  ELSE IF rule = 6 THEN << "APPROVE", TRUE >>
  ELSE IF rule = 7 THEN << "REVISE", FALSE >>
  ELSE << "REVISE", TRUE >>

OverrideRequests == { i \in 1..Len(requests) : requests[i].kind = "override" }

Justified(o) ==
  /\ o.actor # ""
  /\ o.decision \in { "APPROVE", "REJECT", "ESCALATE" }
  /\ Len(o.rationale) >= 20

IsPrefix(s, t) == Len(s) <= Len(t) /\ \A k \in 1..Len(s) : t[k] = s[k]

\* the requests whose handler took this step
Stepping == { i \in 1..Len(requests) : requests'[i] # requests[i] }

\* C15: every step keeps every stored evaluation as it is, row for row; a step
\* of an evaluate request adds at most one evaluation and touches no override,
\* and a step of an override request leaves the evaluations alone, adds at most
\* one override and one audit entry, and touches no other table
EvaluationsAppendOnlyStep ==
  /\ IsPrefix(db.evaluations, db'.evaluations)
  /\ Len(db'.evaluations) <= Len(db.evaluations) + 1
  /\ \A i \in Stepping :
       /\ requests[i].kind = "evaluate"
            => /\ db'.overrides = db.overrides
               /\ Len(db'.evaluations) > Len(db.evaluations) => requests[i].at = "create"
       /\ requests[i].kind = "override"
            => /\ db'.evaluations = db.evaluations
               /\ IsPrefix(db.overrides, db'.overrides)
               /\ IsPrefix(db.auditLog, db'.auditLog)
               /\ Len(db'.overrides) + Len(db'.auditLog)
                    <= Len(db.overrides) + Len(db.auditLog) + 1
               /\ db'.mandateVersions = db.mandateVersions
               /\ db'.proposalVersions = db.proposalVersions

EvaluationsAppendOnly == [][EvaluationsAppendOnlyStep]_vars

\* an override that disagrees with the evaluation it names was stored and
\* audited, and a later evaluation was stored next to the first one
EvaluationsAppendOnlyWitness ==
  /\ Len(db.evaluations) = 2
  /\ Len(db.overrides) = 1
  /\ \E k \in 1..Len(db.auditLog) : db.auditLog[k].action = "OVERRIDE"
  /\ db.overrides[1].decision
       # db.evaluations[db.overrides[1].evaluationId].decisionObject.recommendation

(***************************************************************************)
(* C18  Every request that answers success after creating an entity has    *)
(* written exactly one audit entry naming that entity, and once all        *)
(* requests have finished no stored override or evaluation lacks its entry.*)
(* The request that creates a new proposal creates two rows, the proposal  *)
(* and its first version, and writes one entry, which names the proposal.  *)
(***************************************************************************)
\* the action and the entity type a handler of this kind logs
Logs(kind) ==
  CASE kind = "evaluate" -> << "EVALUATE", "Evaluation" >>
    [] kind = "override" -> << "OVERRIDE", "OverrideDecision" >>
    [] kind = "proposal" -> << "CREATE", "Proposal" >>
    [] kind = "version" -> << "CREATE", "ProposalVersion" >>
    [] kind = "mandate" -> << "CREATE", "MandateVersion" >>
    [] kind = "activate" -> << "ACTIVATE", "MandateVersion" >>

AuditEntries(action, entityType, entityId) ==
  { k \in 1..Len(db.auditLog) : /\ db.auditLog[k].action = action
                                /\ db.auditLog[k].entityType = entityType
                                /\ db.auditLog[k].entityId = entityId }

\* the requests answered with success that logged this action on this entity
Succeeded(action, entityType, entityId) ==
  { i \in 1..Len(requests) : /\ requests[i].status = 200
                             /\ Logs(requests[i].kind) = << action, entityType >>
                             /\ requests[i].scratch.created = entityId }

AllAnswered == \A i \in 1..Len(requests) : requests[i].at = "answered"

Creates(r) ==
  CASE r.kind = "proposal" -> { << "Proposal", r.scratch.created >>,
                                << "ProposalVersion", r.scratch.found >> }
    [] OTHER -> { << Logs(r.kind)[2], r.scratch.created >> }

EvaluateRequests == { i \in 1..Len(requests) : requests[i].kind = "evaluate" }

\* what request i's evaluation yields when nothing else runs: evaluateProposal
\* on the mandate and proposal versions its handler read, with the response its
\* own model call settled with and the rounding its own score took
AloneDecision(i) ==
  LET mine == requests[i].scratch
  IN EvaluateAlone(form, apiKey,
                   [ mandate |-> mine.mandateVersion.data,
                     proposal |-> mine.proposalVersion.data ],
                   mine.response,
                   IF form = "weighted" THEN mine.scores.tradeoffScore.err ELSE 0)

\* C14: whatever ran in between, the step in which an evaluate request stores
\* its evaluation stores the decision object that its evaluation produces alone,
\* next to the versions the request itself read; and a step of one request
\* changes the locals of no other request
EvaluationsIndependentStep ==
  /\ Cardinality(Stepping) <= 1
  /\ \A i \in EvaluateRequests :
       requests[i].scratch.created = 0 /\ requests'[i].scratch.created # 0
         => LET row == db'.evaluations[requests'[i].scratch.created]
            IN /\ row.decisionObject = AloneDecision(i)
               /\ row.proposalVersionId = requests[i].body.proposalVersionId
               /\ row.mandateVersionId = requests[i].scratch.mandateVersionId

EvaluationsIndependent == [][EvaluationsIndependentStep]_vars

\* two evaluations overlapped, the one that started later stored its result
\* first, and the two decision objects differ
EvaluationsIndependentWitness ==
  \E i \in EvaluateRequests, j \in EvaluateRequests :
    /\ i < j
    /\ requests[j].scratch.created # 0
    /\ requests[i].scratch.created > requests[j].scratch.created
    /\ db.evaluations[requests[i].scratch.created].decisionObject
         # db.evaluations[requests[j].scratch.created].decisionObject

(***************************************************************************)
(* C19  The inputsSnapshot stored with an evaluation holds every mandate   *)
(* and proposal field the pipeline read, so two stored evaluations with    *)
(* equal snapshot, equal risk output and equal trace have equal decision   *)
(* objects.                                                                *)
(***************************************************************************)
\* two stored evaluations agree on the snapshot, the risks and the trace (and,
\* in the weighted revision, on how the score's last bit was rounded)
SameRecordedInputs(a, b) ==
  /\ a.inputsSnapshot = b.inputsSnapshot
  /\ a.decisionObject.unseen_risks = b.decisionObject.unseen_risks
  /\ a.modelTrace = b.modelTrace
  /\ form = "weighted"
       => a.decisionObject.tradeoff_score.err = b.decisionObject.tradeoff_score.err

\* C19: two stored evaluations with equal inputsSnapshot, equal risk output and
\* equal trace have equal decision objects
SnapshotDeterminesDecision ==
  \A j \in 1..Len(db.evaluations), k \in 1..Len(db.evaluations) :
    SameRecordedInputs(db.evaluations[j], db.evaluations[k])
      => db.evaluations[j].decisionObject = db.evaluations[k].decisionObject

\* outcome-list revision: two versions of one proposal that share the title and
\* the summary were evaluated; the snapshots, the risks and the traces are equal,
\* the confidences are not
SameSnapshotDifferentDecision ==
  /\ form = "outcomes"
  /\ Len(db.evaluations) = 2
  /\ db.evaluations[1].proposalVersionId # db.evaluations[2].proposalVersionId
  /\ SameRecordedInputs(db.evaluations[1], db.evaluations[2])
  /\ db.evaluations[1].decisionObject.confidence
       # db.evaluations[2].decisionObject.confidence

\* the weighted revision's snapshot names the versions and holds all their fields
SnapshotDeterminesDecisionWeighted ==
  form = "weighted" => SnapshotDeterminesDecision

(***************************************************************************)
(* C21  extractAndValidateJson tries the raw text, then a fenced code      *)
(* block, then the first {...} span, moves on whenever one fails, returns  *)
(* the first value that parses and passes the schema, and throws only if   *)
(* none of the three does.                                                 *)
(***************************************************************************)
\* what each of the three strategies yields on its own, in the order tried
Strategies(raw) ==
  << JsonParse(raw),
     IF HasCodeBlock(raw) THEN JsonParse(CodeBlockContent(raw)) ELSE Threw("no code block"),
     IF BracePositions(raw) # {} THEN JsonParse(BraceSpan(raw)) ELSE Threw("no braces") >>

\* the strategies whose value parses and passes the schema
ValidStrategies(raw) ==
  { k \in 1..3 : Strategies(raw)[k].ok /\ SchemaAccepts(Strategies(raw)[k].value) }

\* the text of the completion that the running evaluation's guard was given
GuardedText ==
  /\ Credentialed /\ Discovered
  /\ ~response.threw /\ response.present /\ response.raw # << >>

\* C21: the guard returned the data of the first strategy that parses and
\* validates, and threw only when no strategy does; a throw of the guard shows
\* as the one failure entry of the trace
FirstValidStrategyWins ==
  GuardedText
    => LET valid == ValidStrategies(response.raw)
           guarded == extractAndValidateJson(response.raw)
       IN /\ guarded.ok <=> valid # {}
          /\ guarded.ok
               => LET first == CHOOSE k \in valid : \A j \in valid : k <= j
                  IN guarded.value = SchemaData(Strategies(response.raw)[first].value)
          /\ Len(discovery.trace.failures) = (IF valid = {} THEN 1 ELSE 0)

\* a completion whose code block holds prose and whose text goes on with a
\* schema-valid object: the third strategy alone would have succeeded, the guard
\* threw at the second
CodeBlockFailureThrows ==
  /\ GuardedText
  /\ ValidStrategies(response.raw) = { 3 }
  /\ ~extractAndValidateJson(response.raw).ok
  /\ Len(discovery.trace.failures) = 1
  /\ discovery.trace.failures[1].error = "Error: Failed to parse JSON from code block"

(***************************************************************************)
(* C22  computeConfidence is the clamp to [0,1] of 0.8 and seven           *)
(* adjustments, and its reasons hold one entry per applied adjustment, in  *)
(* that order.                                                             *)
(***************************************************************************)
\* the seven adjustments in the order of the claim: whether each applies to the
\* running evaluation, its amount in hundredths and how its reason begins
Adjustments ==
  << [ applies |-> features.missingFieldsCount > 0,
       amount |-> 0 - 10 * features.missingFieldsCount, reason |-> "Missing " ],
     [ applies |-> discovery.trace.failures # << >>,
       amount |-> 0 - 30, reason |-> "AI risk analysis failed" ],
     [ applies |-> features.assumptionCount = 0,
       amount |-> 0 - 10, reason |-> "No assumptions stated" ],
     [ applies |-> features.dependencyCount = 0,
       amount |-> 0 - 5, reason |-> "No dependencies stated" ],
     [ applies |-> TotalRisks(discovery.risks) > 10,
       amount |-> 0 - 10, reason |-> "High risk count" ],
     [ applies |-> scores.conflicts # << >>,
       amount |-> 0 - 5 * Len(scores.conflicts), reason |-> " conflict(s) detected" ],
     [ applies |-> /\ features.assumptionCount > 0 /\ features.dependencyCount > 0
                   /\ features.missingFieldsCount = 0,
       amount |-> 10, reason |-> "Well-documented proposal" ] >>

Applied == { k \in 1..7 : Adjustments[k].applies }

RECURSIVE SumApplied(_)
SumApplied(set) ==
  IF set = {} THEN 0
  ELSE LET k == CHOOSE x \in set : TRUE
       IN Adjustments[k].amount + SumApplied(set \ { k })

\* text occurs in s
Mentions(s, text) ==
  \E i \in 1..(Len(s) - Len(text) + 1) : SubSeq(s, i, i + Len(text) - 1) = text

Dimensions == { "growth", "cost", "risk", "brand" }

WeightTotal(w) == w.growth + w.cost + w.risk + w.brand

\* sum of weight * proxy over the four dimensions, in units of 1/200
WeightedProxies(w, proxy) ==
  w.growth * proxy.growth + w.cost * proxy.cost + w.risk * proxy.risk
  + w.brand * proxy.brand

\* x is the value n/d, up to the rounding error of the floating-point result
IsValue(x, n, d) == x.num * d = n * x.den

\* C23: for a weighted evaluation, every proxy is 0.3, 0.5, 0.6 or 0.9; with a
\* positive weight sum T, weighted proxies W (in 1/200) and m missing fields the
\* score has the value of (2W - mT) / 20T brought into [0,1]; with T = 0 the
\* score is exactly 1/2, whatever the proposal
TradeoffIsWeightedMean ==
  (Decided /\ form = "weighted")
    => LET w == input.mandate.weights
           proxy == BandScores(scores.impactEstimate)
           T == WeightTotal(w)
           n == 2 * WeightedProxies(w, proxy) - features.missingFieldsCount * T
       IN /\ \A d \in Dimensions : proxy[d] \in { 3, 5, 6, 9 }
          /\ T > 0 => IF n < 0 THEN IsValue(scores.tradeoffScore, 0, 1)
                      ELSE IF n > 20 * T THEN IsValue(scores.tradeoffScore, 1, 1)
                      ELSE IsValue(scores.tradeoffScore, n, 20 * T)
          /\ T = 0 => scores.tradeoffScore = Rat(1, 2)

\* a proposal with missing fields scored under positive weights: the penalty
\* shows in the score
TradeoffIsWeightedMeanWitness ==
  /\ Decided /\ form = "weighted"
  /\ WeightTotal(input.mandate.weights) > 0
  /\ features.missingFieldsCount >= 2
  /\ ~IsValue(scores.tradeoffScore, 0, 1)
  /\ RatLT(scores.tradeoffScore,
           Rat(WeightedProxies(input.mandate.weights, BandScores(scores.impactEstimate)),
               10 * WeightTotal(input.mandate.weights)))

(***************************************************************************)
(* C24  For a non-negotiable with a currency figure L and a proposal text  *)
(* with a currency figure P, a budget violation is reported for that       *)
(* constraint exactly when the amount of P exceeds the amount of L,        *)
(* however the figures are written.                                        *)
(***************************************************************************)
\* the amount a currency figure such as "$750k" or "$900,000" stands for
AmountOf(figure) ==
  LET hasK == CharAt(figure, Len(figure)) \in { "k", "K" }
      digits == SubSeq(figure, 2, IF hasK THEN Len(figure) - 1 ELSE Len(figure))
  IN DigitsValue(RemoveCommas(digits, 1), 1, 0) * (IF hasK THEN 1000 ELSE 1)

BudgetViolations ==
  { scores.constraintViolations[k] : k \in 1..Len(scores.constraintViolations) }

\* C24: in a weighted evaluation, for every non-negotiable holding a currency
\* figure L, when the proposal text holds a currency figure P, the budget
\* violation of that non-negotiable is among the reported violations exactly
\* when the amount of P is greater than the amount of L
BudgetComparedByAmount ==
  (Decided /\ form = "weighted")
    => LET P == MatchCurrency(ToLowerCase(ProposalText(input.proposal)))
       IN P # ""
            => \A k \in 1..Len(input.mandate.nonNegotiables) :
                 LET constraint == input.mandate.nonNegotiables[k]
                     L == MatchCurrency(ToLowerCase(constraint))
                 IN L # ""
                      => (("Budget constraint violated: " \o constraint) \in BudgetViolations
                            <=> AmountOf(P) > AmountOf(L))

\* the proposal names $900,000, the mandate's budget is $750k, and no budget
\* violation was reported
BudgetExceededUnreported ==
  /\ Decided /\ form = "weighted"
  /\ MatchCurrency(ToLowerCase(ProposalText(input.proposal))) = "$900,000"
  /\ \E k \in 1..Len(input.mandate.nonNegotiables) :
       MatchCurrency(ToLowerCase(input.mandate.nonNegotiables[k])) = "$750k"
  /\ scores.constraintViolations = << >>

(***************************************************************************)
(* C25  An APPROVE without human review implies confidence >= 0.4, no      *)
(* high-severity tail risk and fewer than three high-severity items (in    *)
(* the weighted form also no violation, score >= 0.7 and a tolerance other *)
(* than CONSERVATIVE); every ESCALATE requires a human.  The outcome-list  *)
(* form looks for high severity in three of the five categories only.      *)
(***************************************************************************)
Unattended == Decided /\ Decision.recommendation = "APPROVE" /\ ~Decision.human_required

HighIn(category) ==
  \E i \in 1..Len(discovery.risks[category]) :
    discovery.risks[category][i].severity = "high"

\* C25 for the weighted form as stated, for the outcome-list form with the
\* categories that form inspects: an unattended approval has confidence of at
\* least 0.4 and no high-severity tail risk; in the weighted form it has fewer
\* than three high-severity items, no constraint violation, a score of at
\* least 0.7 and a tolerance other than CONSERVATIVE; in the outcome-list form
\* it has confidence of at least 0.7 and no high-severity implicit assumption
\* or second-order effect; every ESCALATE has human_required
UnattendedApprovalIsSafe ==
  /\ Unattended
       => /\ confidence.confidence >= 40
          /\ ~HighIn("tail_risks")
          /\ form = "weighted"
               => /\ HighItems(discovery.risks) < 3
                  /\ scores.constraintViolations = << >>
                  /\ ScoreAtLeast(scores.tradeoffScore, 7)
                  /\ input.mandate.riskTolerance # "CONSERVATIVE"
          /\ form = "outcomes"
               => /\ confidence.confidence >= 70
                  /\ ~HighIn("implicit_assumptions")
                  /\ ~HighIn("second_order_effects")
  /\ (Decided /\ Decision.recommendation = "ESCALATE") => Decision.human_required

\* a weighted evaluation whose risks the model returned was approved
\* unattended
UnattendedApprovalIsSafeWitness ==
  /\ Unattended
  /\ form = "weighted"
  /\ Credentialed
  /\ Len(discovery.trace.failures) = 0

\* C25 as stated: in either form an unattended approval has fewer than three
\* high-severity items across the five categories
UnattendedApprovalHasFewHighItems ==
  Unattended => HighItems(discovery.risks) < 3

(***************************************************************************)
(* C26  For each mandate at most one MandateVersion has isActive = true,   *)
(* under any interleaving of create-version and activate-version requests. *)
(***************************************************************************)
ActiveVersions(mandateId) ==
  { k \in 1..Len(db.mandateVersions) :
      /\ db.mandateVersions[k].mandateId = mandateId
      /\ db.mandateVersions[k].isActive }

MandateIds == { db.mandateVersions[k].mandateId : k \in 1..Len(db.mandateVersions) }

\* C26: in every reachable state each mandate has at most one active version
AtMostOneActiveVersion ==
  \A m \in MandateIds : Cardinality(ActiveVersions(m)) <= 1

\* two versions of one mandate are active after a create-version request and
\* an activate-version request interleaved and both answered
TwoActiveVersions ==
  /\ \E m \in MandateIds : Cardinality(ActiveVersions(m)) = 2
  /\ AllAnswered
  /\ \E i \in 1..Len(requests) : requests[i].kind = "activate" /\ requests[i].status = 200

(***************************************************************************)
(* C27  Once a mandate has an active version, some version of it is active *)
(* in every later state, so an evaluate request is never answered          *)
(* 'No active mandate' after the first activation.                         *)
(***************************************************************************)
\* an evaluate request answered 'No active mandate'
Unmandated(reqs) ==
  { i \in 1..Len(reqs) : /\ reqs[i].kind = "evaluate"
                         /\ reqs[i].status = 400
                         /\ reqs[i].answer = "No active mandate" }

\* C27 as a step property (the seed has an active version from the start): no
\* step takes a mandate from having an active version to having none, and no
\* step answers an evaluate request 'No active mandate'
SomeVersionStaysActiveStep ==
  /\ \A m \in MandateIds : ActiveVersions(m) # {} => ActiveVersions(m)' # {}
  /\ Unmandated(requests') \subseteq Unmandated(requests)

SomeVersionStaysActive == [][SomeVersionStaysActiveStep]_vars

\* an evaluate request arrived between the two calls of an activate-version
\* request and was answered 'No active mandate' with status 400
EvaluateFoundNoActiveMandate ==
  \E i, j \in 1..Len(requests) :
    /\ i \in Unmandated(requests)
    /\ requests[j].kind \in { "activate", "mandate" }
    /\ requests[j].at \in { "activate", "create" }
    /\ \A m \in MandateIds : ActiveVersions(m) = {}

(***************************************************************************)
(* C28  The features of any proposal make at least one penalty or the      *)
(* bonus of computeConfidence apply, so the reasons are never the neutral  *)
(* 'Standard confidence assessment' and no confidence exceeds 0.9.         *)
(***************************************************************************)
\* the adjustments that depend on the proposal alone: missing fields, no
\* assumptions, no dependencies, and the bonus
ProposalAdjustments == { 1, 3, 4, 7 }

\* C28: in a weighted evaluation one of the proposal's own adjustments applied
\* and the neutral reason is not among the reasons; in either form the
\* confidence is at most 0.9
SomeAdjustmentAlwaysApplies ==
  Decided
    => /\ form = "weighted"
            => /\ Applied \cap ProposalAdjustments # {}
               /\ \A k \in 1..Len(confidence.reasons) :
                    confidence.reasons[k] # "Standard confidence assessment"
       /\ confidence.confidence <= 90

\* a weighted evaluation of a fully documented proposal: the bonus alone
\* applied and the confidence is 0.9
SomeAdjustmentAlwaysAppliesWitness ==
  /\ Decided
  /\ form = "weighted"
  /\ Applied = { 7 }
  /\ confidence.confidence = 90
  /\ confidence.reasons = << "Well-documented proposal (+10%)" >>

(***************************************************************************)
(* computeChecksum.  A payload is an object as the handlers build it: its  *)
(* members in insertion order, each value a string, a number (weights are  *)
(* kept in twentieths), a list of strings or a nested object.  The digest  *)
(* is kept as the text it is taken of: two checksums are equal exactly     *)
(* when the normalised texts are, hash collisions aside.                   *)
(***************************************************************************)
Str(s) == [ kind |-> "string", text |-> s, n |-> 0, items |-> << >>, members |-> << >> ]

Num(n) == [ kind |-> "number", text |-> "", n |-> n, items |-> << >>, members |-> << >> ]

Strs(items) ==
  [ kind |-> "strings", text |-> "", n |-> 0, items |-> items, members |-> << >> ]

Nested(members) ==
  [ kind |-> "object", text |-> "", n |-> 0, items |-> << >>, members |-> members ]

Member(key, value) == [ key |-> key, value |-> value ]

\* the key names of the version payloads in the order of Array.prototype.sort
\* (UTF-16 code units)
KeyOrder ==
  << "assumptions", "brand", "cost", "dependencies", "growth", "nonNegotiables",
     "outcomes", "risk", "riskTolerance", "scope", "summary", "title", "weights" >>

Keys(members) == { members[i].key : i \in 1..Len(members) }

\* Object.keys(data).sort()
SortedKeys(members) == SelectSeq(KeyOrder, LAMBDA k : k \in Keys(members))

Quote(s) == "\"" \o s \o "\""

\* the JSON text of a weight: twentieths written as a decimal fraction
NumberText(n) ==
  LET h == 5 * n
  IN IF h % 100 = 0 THEN ToString(h \div 100)
     ELSE ToString(h \div 100) \o "."
          \o (IF h % 10 = 0 THEN ToString((h % 100) \div 10)
              ELSE (IF h % 100 < 10 THEN "0" ELSE "") \o ToString(h % 100))

RECURSIVE JoinTexts(_)
JoinTexts(texts) ==
  IF texts = << >> THEN ""
  ELSE IF Len(texts) = 1 THEN texts[1]
  ELSE texts[1] \o "," \o JoinTexts(Tail(texts))

\* JSON.stringify(value, propertyList): of every object, at every depth, the
\* members named in the property list are written, in the list's order
RECURSIVE Stringify(_, _)
Stringify(value, propertyList) ==
  CASE value.kind = "string" -> Quote(value.text)
    [] value.kind = "number" -> NumberText(value.n)
    [] value.kind = "strings" ->
         "[" \o JoinTexts([ i \in 1..Len(value.items) |-> Quote(value.items[i]) ]) \o "]"
    [] value.kind = "object" ->
         LET written == SelectSeq(propertyList, LAMBDA k : k \in Keys(value.members))
             valueOf(k) ==
               value.members[CHOOSE i \in 1..Len(value.members) :
                               value.members[i].key = k].value
         IN "{" \o JoinTexts([ j \in 1..Len(written) |->
                                 Quote(written[j]) \o ":"
                                 \o Stringify(valueOf(written[j]), propertyList) ])
            \o "}"

computeChecksum(data) ==
  [ sha256 |-> Stringify(Nested(data), SortedKeys(data)) ]

\* versionData of the three creating handlers
MandateData(m) ==
  << Member("weights",
            Nested(<< Member("growth", Num(m.weights.growth)),
                      Member("cost", Num(m.weights.cost)),
                      Member("risk", Num(m.weights.risk)),
                      Member("brand", Num(m.weights.brand)) >>)),
     Member("riskTolerance", Str(m.riskTolerance)),
     Member("nonNegotiables", Strs(m.nonNegotiables)) >>

OutcomesData(outcomes) == << Member("outcomes", Strs(outcomes)) >>

ProposalData(p) ==
  << Member("title", Str(p.title)), Member("summary", Str(p.summary)),
     Member("scope", Str(p.scope)), Member("assumptions", Strs(p.assumptions)),
     Member("dependencies", Strs(p.dependencies)) >>

Reversed(members) == [ i \in 1..Len(members) |-> members[Len(members) + 1 - i] ]

Payloads ==
  << MandateData(SeedMandateV1),
     Reversed(MandateData(SeedMandateV1)),
     MandateData([ SeedMandateV1 EXCEPT !.weights.growth = 9 ]),
     MandateData([ SeedMandateV1 EXCEPT !.riskTolerance = "AGGRESSIVE" ]),
     MandateData(SeedMandateV2),
     OutcomesData(SeedOutcomes),
     OutcomesData(<< "Ship by Feb 15" >>),
     ProposalData(SeedApac),
     Reversed(ProposalData(SeedApac)),
     ProposalData([ SeedApac EXCEPT !.scope = "TBD" ]),
     ProposalData([ SeedApac EXCEPT !.assumptions = << >> ]) >>

ChecksumInit ==
  /\ apiKey = ""
  /\ pc = "idle"
  /\ form = "weighted"
  /\ \E a, b \in 1..Len(Payloads) : input = [ first |-> Payloads[a], second |-> Payloads[b] ]
  /\ features = None
  /\ scores = None
  /\ request = None
  /\ clientCalls = 0
  /\ response = None
  /\ discovery = None
  /\ confidence = None
  /\ escalation = None
  /\ result = None
  /\ steps = << >>
  /\ kept = None
  /\ db = None
  /\ requests = << >>

ComputeChecksums ==
  /\ pc = "idle"
  /\ result' = [ first |-> computeChecksum(input.first),
                 second |-> computeChecksum(input.second) ]
  /\ pc' = "done"
  /\ UNCHANGED << apiKey, form, input, features, scores, request, clientCalls, response,
                  discovery, confidence, escalation, steps, kept, db, requests >>

ChecksumSpec == ChecksumInit /\ [][ComputeChecksums]_vars

(***************************************************************************)
(* C29  computeChecksum gives equal checksums to payloads that differ only *)
(* in the order of their top-level keys, and different normalised forms to *)
(* payloads that differ in any field value, a nested one included.         *)
(***************************************************************************)
Members(data) == { data[i] : i \in 1..Len(data) }

Checksummed == pc = "done" /\ result # None

\* C29: payloads with the same members in any order get equal checksums, and
\* payloads whose members differ get different normalised forms
ChecksumTellsPayloadsApart ==
  Checksummed
    => (Members(input.first) = Members(input.second)
          <=> result.first = result.second)

\* the order-independence half alone: the same members in a different order
\* give equal checksums
ChecksumIgnoresKeyOrder ==
  Checksummed
    => (Members(input.first) = Members(input.second)
          => result.first = result.second)

\* two mandate payloads that differ in the growth weight alone have the same
\* normalised form, in which the weights are an empty object
NestedChangeKeepsChecksum ==
  /\ Checksummed
  /\ input.first = MandateData(SeedMandateV1)
  /\ input.second = MandateData([ SeedMandateV1 EXCEPT !.weights.growth = 9 ])
  /\ result.first = result.second
  /\ result.first.sha256
       = "{\"nonNegotiables\":[\"No layoffs\",\"Budget must not exceed $500k\"],"
         \o "\"riskTolerance\":\"MODERATE\",\"weights\":{}}"

(***************************************************************************)
(* C30  In credentialed mode a completion whose content is missing or      *)
(* empty is treated as a failure, and an all-empty risk set with no        *)
(* failure entry is returned only when the model's own text parsed and     *)
(* validated.                                                              *)
(***************************************************************************)
\* the call resolved with content that is missing or the empty string
NoContent(o) == ~o.threw /\ (~o.present \/ o.raw = << >>)

AllEmpty(risks) ==
  /\ TotalRisks(risks) = 0
  /\ risks.top_3_unseen_risks = << >>
  /\ risks.data_to_collect_next = << >>

\* C30: after a credentialed call that resolved without content the trace has
\* one failure entry; an all-empty risk set with no failure entry comes from a
\* text of the model that holds a value the risk schema accepts
MissingContentIsFailure ==
  (Discovered /\ Credentialed /\ response # None)
    => /\ NoContent(response) => Len(discovery.trace.failures) = 1
       /\ (AllEmpty(discovery.risks) /\ discovery.trace.failures = << >>)
            => /\ ~NoContent(response)
               /\ \E i \in JsonTokens(response.raw) : SchemaAccepts(response.raw[i].value)

\* a weighted evaluation whose completion had no content went on with the
\* all-empty risk set and no failure entry
MissingContentPassesAsEmptyRisks ==
  /\ Discovered
  /\ Credentialed
  /\ form = "weighted"
  /\ response # None
  /\ NoContent(response)
  /\ AllEmpty(discovery.risks)
  /\ discovery.trace.failures = << >>

====
